---- MODULE Spec2Model ----
(***************************************************************************)
(* Model of echoes-io/tracker: the migration runner (migrations/index.ts)  *)
(* and the composite-key Tracker over the five-table hierarchy             *)
(* (lib/tracker.ts, migrations/001_initial.ts).  SQLite enforces foreign   *)
(* keys on this connection (better-sqlite3 turns them on).                 *)
(*                                                                         *)
(* The store is SQLite behind one Kysely connection: a transaction works   *)
(* on a private copy (trx) that replaces the committed state on COMMIT and *)
(* is discarded on ROLLBACK or when the process dies.                      *)
(*                                                                         *)
(* Specifications: Spec is the migration runner; SpecTracker is the        *)
(* composite-key Tracker on rows cut down to their keys.  The record-level *)
(* Tracker, with the surrogate-key class beside the composite-key one, is  *)
(* run by SpecCrud (composite keys, a wide hierarchy, updates of identity  *)
(* fields), SpecChain (either class, one chain, payloads that fail         *)
(* validation), SpecParts (parts and chapters of one episode),             *)
(* SpecChapters (the optional chapter fields), SpecPaths (two timelines    *)
(* with arcs, episodes and parts of the same names and numbers),           *)
(* SpecListing (chapters of every part) and SpecLookup (a surrogate-key    *)
(* create split into its select and its insert, with deletes of another    *)
(* caller in between).  Spec003 applies 003_convert_date_format to chapter *)
(* dates; SpecRevert adds a down called by hand to the runner, SpecRace    *)
(* the commits of a second invocation of migrate.                          *)
(***************************************************************************)
EXTENDS Integers, Sequences, FiniteSets, TLC

\* ------------------------------------------------------------------ bounds
\* number of migration units in the migrations directory
MaxUnits == 3
\* number of statements a unit's up executes
NStmts == 2
\* number of releases of the migration code (drift of an up's body)
MaxImpl == 2
\* saturation of the per-unit commit counter
MaxCommits == 2

\* largest episode, part and chapter number in use
MaxNumber == 2
\* rows the five tables hold together
MaxRows == 6

Units == 1..MaxUnits
Stmts == 1..NStmts

NoUnit == 0
NoTrx == [active |-> FALSE]
NoErr == [orig |-> <<NoUnit, 0>>, annotation |-> NoUnit]
NoOp == [op |-> "none", ok |-> TRUE, removed |-> <<0, 0, 0, 0, 0>>]

\* no create is between its two statements
NoCall == [op |-> "none"]

\* ------------------------------------------------- the migrations directory
\* A file "NNN_<stem>.<ext>" is [num |-> NNN, ext |-> ext]; "index.<ext>" has
\* num = 0.  The directory holds one .ts file per unit, the runner itself
\* (index.ts) and one declaration file.
Dir ==
  {[num |-> n, ext |-> "ts"] : n \in Units}
    \cup {[num |-> 0, ext |-> "ts"], [num |-> 1, ext |-> "d.ts"]}

\* position of a file name in the order of Array.prototype.sort() (UTF-16
\* code units): digits sort before "i"; "x.d.ts" < "x.js" < "x.ts"
ExtRank(e) == CASE e = "d.ts" -> 0 [] e = "js" -> 1 [] OTHER -> 2
SortKey(f) == (IF f.num = 0 THEN (MaxUnits + 2) * 3 ELSE f.num * 3) + ExtRank(f.ext)

RECURSIVE SortFiles(_)
SortFiles(files) ==
  IF files = {} THEN <<>>
  ELSE LET m == CHOOSE f \in files : \A g \in files : SortKey(f) <= SortKey(g)
       IN <<m>> \o SortFiles(files \ {m})

Range(s) == {s[i] : i \in 1..Len(s)}

\* readdir() promises no order: the listing is the directory's entries in
\* name order or in reverse name order, started at any entry
Rotate(q, r) == [i \in 1..Len(q) |-> q[((i + r - 1) % Len(q)) + 1]]
Reverse(q) == [i \in 1..Len(q) |-> q[Len(q) + 1 - i]]
Listings ==
  {Rotate(SortFiles(Dir), r) : r \in 0..(Cardinality(Dir) - 1)}
    \cup {Rotate(Reverse(SortFiles(Dir)), r) : r \in 0..(Cardinality(Dir) - 1)}

SortListing_unsorted(l) == l

\* files.sort()
SortListing(l) == SortFiles(Range(l))

\* file.match(/^\d{3}_.*\.(?:ts|js)$/) && !file.endsWith('.d.ts') && !file.startsWith('index.')
IsMigrationFile(f) == f.num # 0 /\ f.ext \in {"ts", "js", "d.ts"} /\ f.ext # "d.ts"

\* Map.set keeps the position of a key that is already present
MapSet(m, name) == IF name \in Range(m) THEN m ELSE Append(m, name)

RECURSIVE CollectMigrations(_, _)
CollectMigrations(files, m) ==
  IF files = <<>> THEN m
  ELSE CollectMigrations(Tail(files),
                         IF IsMigrationFile(Head(files)) THEN MapSet(m, Head(files).num) ELSE m)

\* loadMigrations(): the unit names in Map iteration order
loadMigrations(listing) == CollectMigrations(SortListing(listing), <<>>)

\* ------------------------------------------------------------ runner helpers
getExecutedMigrations_none(rows) == {}

\* getExecutedMigrations(): the names recorded in _migrations
getExecutedMigrations(rows) == {n \in rows : TRUE}

IsPending_always(name, exec) == TRUE

\* if (!executed.has(name))
IsPending(name, exec) == name \notin exec

LoopDone_early(i, m) == i >= Len(m)

\* end of the for..of loop over the Map
LoopDone(i, m) == i > Len(m)

\* db.transaction().execute: BEGIN gives the callback a private copy
BeginTrx(sch, led) == [active |-> TRUE, schema |-> sch, ledger |-> led]

\* one statement of migration.up(trx)
ApplyStmt(t, u, k, v) == [t EXCEPT !.schema = @ \cup {<<u, k, v>>}]

recordApplied_lost(t, name) == t

\* INSERT INTO _migrations (name) VALUES (name), executed on trx
recordApplied(t, name) == [t EXCEPT !.ledger = @ \cup {name}]

Rollback_keep(committed, work) == work

\* ROLLBACK: the committed state stays, the private copy is dropped
Rollback(committed, work) == committed

\* COMMIT
CommitSchema(t) == t.schema
CommitLedger(t) == t.ledger

Rethrow_wrapped(e, name) == [orig |-> <<NoUnit, 0>>, annotation |-> name]

\* neither Kysely's transaction() nor migrate() wraps the error: it is
\* rethrown as caught
Rethrow(e, name) == e

AfterThrow_continue == "loop"

\* a rejected await inside the loop leaves migrate(): no catch, no continue
AfterThrow == "failed"

Bump(c) == IF c < MaxCommits THEN c + 1 ELSE c

\* -------------------------------------------------------------------- state
VARIABLES
  ledgerTable,   \* the _migrations table exists
  ledger,        \* committed rows of _migrations (names)
  schema,        \* committed changes of the units: <<unit, statement, release>>
  trx,           \* the open transaction's private copy, or NoTrx
  pc,            \* position of migrate(): idle, ensure, read, load, loop, up, insert, commit, done, failed
  executed,      \* const executed
  migrations,    \* const migrations (names in iteration order)
  idx,           \* position of the for..of loop
  stmt,          \* statements of the current up already executed
  err,           \* the error migrate() rejects with
  broken,        \* units whose up (or ledger insert) currently fails
  impl,          \* release of the migration code that is deployed
  log,           \* history: events of the current run
  startLedger,   \* history: ledger when the current run started
  prev,          \* history: outcome of the previous run
  commits,       \* history: per unit, how many transactions committed it
  timeline,      \* rows of table timeline
  arc,           \* rows of table arc
  episode,       \* rows of table episode
  part,          \* rows of table part
  chapter,       \* rows of table chapter
  lastOp,        \* history: the last Tracker call and its outcome
  variant,       \* the Tracker class in use: composite or surrogate keys
  pending        \* the create that has selected its parent and not yet inserted

runnerVars == <<ledgerTable, ledger, schema, trx, pc, executed, migrations, idx,
                stmt, err, broken, impl, log, startLedger, prev, commits>>

crudVars == <<timeline, arc, episode, part, chapter, lastOp, variant, pending>>

vars == <<ledgerTable, ledger, schema, trx, pc, executed, migrations, idx,
          stmt, err, broken, impl, log, startLedger, prev, commits,
          timeline, arc, episode, part, chapter, lastOp, variant, pending>>

Cur_descending == migrations[Len(migrations) + 1 - idx]

\* const [name, migration] of migrations: the entry the loop is at
Cur == migrations[idx]

Init ==
  /\ ledgerTable = FALSE
  /\ ledger = {}
  /\ schema = {}
  /\ trx = NoTrx
  /\ pc = "idle"
  /\ executed = {}
  /\ migrations = <<>>
  /\ idx = 1
  /\ stmt = 0
  /\ err = NoErr
  /\ broken = {}
  /\ impl = 1
  /\ log = <<>>
  /\ startLedger = {}
  /\ prev = [result |-> "none", failed |-> NoUnit, ledger |-> {}]
  /\ commits = [u \in Units |-> 0]
  /\ timeline = {}
  /\ arc = {}
  /\ episode = {}
  /\ part = {}
  /\ chapter = {}
  /\ lastOp = NoOp
  /\ variant = "composite"
  /\ pending = NoCall

\* ------------------------------------------------------------------ actions
\* Tracker.init() -> migrate(db)
Migrate ==
  /\ pc = "idle"
  /\ pc' = "ensure"
  /\ log' = <<>>
  /\ startLedger' = ledger
  /\ err' = NoErr
  /\ UNCHANGED <<crudVars, ledgerTable, ledger, schema, trx, executed, migrations, idx, stmt,
                 broken, impl, prev, commits>>

\* await ensureMigrationsTable(db): CREATE TABLE IF NOT EXISTS
EnsureMigrationsTable ==
  /\ pc = "ensure"
  /\ ledgerTable' = TRUE
  /\ pc' = "read"
  /\ UNCHANGED <<crudVars, ledger, schema, trx, executed, migrations, idx, stmt, err,
                 broken, impl, log, startLedger, prev, commits>>

\* const executed = await getExecutedMigrations(db)
GetExecuted ==
  /\ pc = "read"
  /\ executed' = getExecutedMigrations(ledger)
  /\ pc' = "load"
  /\ UNCHANGED <<crudVars, ledgerTable, ledger, schema, trx, migrations, idx, stmt, err,
                 broken, impl, log, startLedger, prev, commits>>

\* const migrations = await loadMigrations()
LoadMigrations ==
  /\ pc = "load"
  /\ \E l \in Listings : migrations' = loadMigrations(l)
  /\ idx' = 1
  /\ pc' = "loop"
  /\ UNCHANGED <<crudVars, ledgerTable, ledger, schema, trx, executed, stmt, err,
                 broken, impl, log, startLedger, prev, commits>>

\* loop head, name already executed: next iteration
Skip ==
  /\ pc = "loop"
  /\ ~LoopDone(idx, migrations)
  /\ ~IsPending(Cur, executed)
  /\ idx' = idx + 1
  /\ UNCHANGED <<crudVars, ledgerTable, ledger, schema, trx, pc, executed, migrations, stmt, err,
                 broken, impl, log, startLedger, prev, commits>>

\* loop head, pending name: db.transaction().execute(...) begins and calls up
Begin ==
  /\ pc = "loop"
  /\ ~LoopDone(idx, migrations)
  /\ IsPending(Cur, executed)
  /\ trx' = BeginTrx(schema, ledger)
  /\ stmt' = 0
  /\ pc' = "up"
  /\ log' = Append(log, <<"begin", Cur>>)
  /\ UNCHANGED <<crudVars, ledgerTable, ledger, schema, executed, migrations, idx, err,
                 broken, impl, startLedger, prev, commits>>

\* (variant) the runner starts the failed unit again within the run
Throw_retry(k) ==
  /\ trx' = BeginTrx(schema, ledger)
  /\ stmt' = 0
  /\ log' = Append(Append(log, <<"rollback", Cur>>), <<"begin", Cur>>)
  /\ pc' = IF Len(log) < 2 * MaxUnits THEN "up" ELSE "failed"
  /\ err' = [orig |-> <<Cur, k>>, annotation |-> NoUnit]
  /\ UNCHANGED <<crudVars, ledgerTable, ledger, schema, executed, migrations, idx,
                 broken, impl, startLedger, prev, commits>>

\* the transaction callback throws: ROLLBACK, then the error leaves migrate()
Throw(k) ==
  /\ trx' = NoTrx
  /\ schema' = Rollback(schema, trx.schema)
  /\ ledger' = Rollback(ledger, trx.ledger)
  /\ err' = Rethrow([orig |-> <<Cur, k>>, annotation |-> NoUnit], Cur)
  /\ pc' = AfterThrow
  /\ idx' = IF AfterThrow = "failed" THEN idx ELSE idx + 1
  /\ log' = Append(log, <<"rollback", Cur>>)
  /\ UNCHANGED <<crudVars, ledgerTable, executed, migrations, stmt,
                 broken, impl, startLedger, prev, commits>>

\* one statement of up executes on the transaction
UpStep ==
  /\ pc = "up"
  /\ stmt < NStmts
  /\ trx' = ApplyStmt(trx, Cur, stmt + 1, impl)
  /\ stmt' = stmt + 1
  /\ UNCHANGED <<crudVars, ledgerTable, ledger, schema, pc, executed, migrations, idx, err,
                 broken, impl, log, startLedger, prev, commits>>

\* up returns: the callback goes on to the ledger insert
UpReturn ==
  /\ pc = "up"
  /\ stmt = NStmts
  /\ pc' = "insert"
  /\ UNCHANGED <<crudVars, ledgerTable, ledger, schema, trx, executed, migrations, idx, stmt, err,
                 broken, impl, log, startLedger, prev, commits>>

\* a statement of up throws (after stmt statements have executed)
UpThrow ==
  /\ pc = "up"
  /\ stmt < NStmts
  /\ Cur \in broken
  /\ Throw(stmt + 1)

RecordApplied_noKey ==
  /\ pc = "insert"
  /\ Cur \notin broken
  /\ trx' = recordApplied(trx, Cur)
  /\ pc' = "commit"
  /\ UNCHANGED <<crudVars, ledgerTable, ledger, schema, executed, migrations, idx, stmt, err,
                 broken, impl, log, startLedger, prev, commits>>

\* INSERT INTO _migrations succeeds
RecordApplied ==
  /\ pc = "insert"
  /\ Cur \notin broken
  /\ Cur \notin trx.ledger
  /\ trx' = recordApplied(trx, Cur)
  /\ pc' = "commit"
  /\ UNCHANGED <<crudVars, ledgerTable, ledger, schema, executed, migrations, idx, stmt, err,
                 broken, impl, log, startLedger, prev, commits>>

\* INSERT INTO _migrations fails (primary key, or the store refuses it)
InsertFail ==
  /\ pc = "insert"
  /\ Cur \in broken \/ Cur \in trx.ledger
  /\ Throw(NStmts + 1)

\* the callback returned: COMMIT, next iteration
Commit ==
  /\ pc = "commit"
  /\ schema' = CommitSchema(trx)
  /\ ledger' = CommitLedger(trx)
  /\ trx' = NoTrx
  /\ commits' = [commits EXCEPT ![Cur] = Bump(@)]
  /\ log' = Append(log, <<"commit", Cur>>)
  /\ idx' = idx + 1
  /\ pc' = "loop"
  /\ UNCHANGED <<crudVars, ledgerTable, executed, migrations, stmt, err,
                 broken, impl, startLedger, prev>>

\* the loop is over: migrate() resolves
Finish ==
  /\ pc = "loop"
  /\ LoopDone(idx, migrations)
  /\ pc' = "done"
  /\ UNCHANGED <<crudVars, ledgerTable, ledger, schema, trx, executed, migrations, idx, stmt, err,
                 broken, impl, log, startLedger, prev, commits>>

\* the caller has the outcome; the next init() may start
Return ==
  /\ pc \in {"done", "failed"}
  /\ prev' = [result |-> IF pc = "done" THEN "ok" ELSE "error",
              failed |-> IF pc = "done" THEN NoUnit ELSE err.orig[1],
              ledger |-> ledger]
  /\ pc' = "idle"
  /\ UNCHANGED <<crudVars, ledgerTable, ledger, schema, trx, executed, migrations, idx, stmt, err,
                 broken, impl, log, startLedger, commits>>

\* the process dies inside a run: SQLite drops the uncommitted transaction
Crash ==
  /\ pc \notin {"idle", "done", "failed"}
  /\ trx' = NoTrx
  /\ prev' = [result |-> "crash", failed |-> NoUnit, ledger |-> ledger]
  /\ pc' = "idle"
  /\ UNCHANGED <<crudVars, ledgerTable, ledger, schema, executed, migrations, idx, stmt, err,
                 broken, impl, log, startLedger, commits>>

\* environment, between runs: a unit starts or stops failing
Break(u) ==
  /\ pc = "idle"
  /\ u \notin broken
  /\ broken' = broken \cup {u}
  /\ UNCHANGED <<crudVars, ledgerTable, ledger, schema, trx, pc, executed, migrations, idx, stmt, err,
                 impl, log, startLedger, prev, commits>>

Repair(u) ==
  /\ pc = "idle"
  /\ u \in broken
  /\ broken' = broken \ {u}
  /\ UNCHANGED <<crudVars, ledgerTable, ledger, schema, trx, pc, executed, migrations, idx, stmt, err,
                 impl, log, startLedger, prev, commits>>

\* environment, between runs: a new release rewrites the units' up
Rewrite ==
  /\ pc = "idle"
  /\ impl < MaxImpl
  /\ impl' = impl + 1
  /\ UNCHANGED <<crudVars, ledgerTable, ledger, schema, trx, pc, executed, migrations, idx, stmt, err,
                 broken, log, startLedger, prev, commits>>

Next ==
  \/ Migrate
  \/ EnsureMigrationsTable
  \/ GetExecuted
  \/ LoadMigrations
  \/ Skip
  \/ Begin
  \/ UpStep
  \/ UpReturn
  \/ UpThrow
  \/ RecordApplied
  \/ InsertFail
  \/ Commit
  \/ Finish
  \/ Return
  \/ Crash
  \/ \E u \in Units : Break(u)
  \/ \E u \in Units : Repair(u)
  \/ Rewrite

Spec == Init /\ [][Next]_vars

\* ---------------------------------------------- the five tables (001_initial)
TimelineNames == {"t1", "t2"}
ArcNames == {"a1", "a2"}
Numbers == 1..MaxNumber

\* primary keys
TimelineKey(r) == <<r.name>>
ArcKey(r) == <<r.timelineName, r.name>>
EpisodeKey(r) == <<r.timelineName, r.arcName, r.number>>
PartKey(r) == <<r.timelineName, r.arcName, r.episodeNumber, r.number>>
ChapterKey(r) == <<r.timelineName, r.arcName, r.episodeNumber, r.number>>

\* parent keys of the foreign keys
ArcTimelineRef(r) == <<r.timelineName>>
EpisodeArcRef(r) == <<r.timelineName, r.arcName>>
PartEpisodeRef(r) == <<r.timelineName, r.arcName, r.episodeNumber>>
ChapterEpisodeRef(r) == <<r.timelineName, r.arcName, r.episodeNumber>>
ChapterPartRef(r) == <<r.timelineName, r.arcName, r.episodeNumber, r.partNumber>>

TimelineKeys(rows) == {TimelineKey(r) : r \in rows}
ArcKeys(rows) == {ArcKey(r) : r \in rows}
EpisodeKeys(rows) == {EpisodeKey(r) : r \in rows}
PartKeys(rows) == {PartKey(r) : r \in rows}
ChapterKeys(rows) == {ChapterKey(r) : r \in rows}

\* the tables exist once 001_initial is committed
TablesExist == \E v \in 1..MaxImpl : <<1, NStmts, v>> \in schema

RowCount ==
  Cardinality(timeline) + Cardinality(arc) + Cardinality(episode)
    + Cardinality(part) + Cardinality(chapter)

\* rows removed by ON DELETE CASCADE, one operator per foreign key
\* arc.timelineName references timeline.name
ArcsOfTimelines(gone) == {r \in arc : ArcTimelineRef(r) \in TimelineKeys(gone)}

EpisodesOfArcs_kept(gone) == {}

\* episode_arc_fk
EpisodesOfArcs(gone) == {r \in episode : EpisodeArcRef(r) \in ArcKeys(gone)}

\* part_episode_fk
PartsOfEpisodes(gone) == {r \in part : PartEpisodeRef(r) \in EpisodeKeys(gone)}

\* chapter_episode_fk
ChaptersOfEpisodes(gone) == {r \in chapter : ChapterEpisodeRef(r) \in EpisodeKeys(gone)}

ChaptersOfParts_kept(gone) == {}

\* chapter_part_fk
ChaptersOfParts(gone) == {r \in chapter : ChapterPartRef(r) \in PartKeys(gone)}

DeleteCascade_direct(dT, dA, dE, dP, dC) ==
  [timeline |-> dT, arc |-> dA, episode |-> dE, part |-> dP, chapter |-> dC]

\* DELETE of the given rows with every cascade it triggers; gives the rows
\* removed from each table
DeleteCascade(dT, dA, dE, dP, dC) ==
  LET goneA == dA \cup ArcsOfTimelines(dT)
      goneE == dE \cup EpisodesOfArcs(goneA)
      goneP == dP \cup PartsOfEpisodes(goneE)
      goneC == dC \cup ChaptersOfEpisodes(goneE) \cup ChaptersOfParts(goneP)
  IN [timeline |-> dT, arc |-> goneA, episode |-> goneE, part |-> goneP, chapter |-> goneC]

ApplyDelete(op, g) ==
  /\ timeline' = timeline \ g.timeline
  /\ arc' = arc \ g.arc
  /\ episode' = episode \ g.episode
  /\ part' = part \ g.part
  /\ chapter' = chapter \ g.chapter
  /\ lastOp' = [op |-> op, ok |-> TRUE,
                removed |-> <<Cardinality(g.timeline), Cardinality(g.arc), Cardinality(g.episode),
                              Cardinality(g.part), Cardinality(g.chapter)>>]

\* an INSERT the store rejects (primary key or foreign key): no row changes
Rejected(op) ==
  /\ lastOp' = [op |-> op, ok |-> FALSE, removed |-> <<0, 0, 0, 0, 0>>]
  /\ UNCHANGED <<timeline, arc, episode, part, chapter>>

Inserted(op) ==
  lastOp' = [op |-> op, ok |-> TRUE, removed |-> <<0, 0, 0, 0, 0>>]

CanCall == pc = "idle" /\ TablesExist

\* ------------------------------------------------------- Tracker operations
\* Each create is one INSERT.  The store refuses it when the primary key is
\* taken or a foreign key has no parent row; the error leaves the method and
\* no row changes.
TimelineRow(t) == [name |-> t]
ArcRow(t, a) == [timelineName |-> t, name |-> a]
EpisodeRow(t, a, n) == [timelineName |-> t, arcName |-> a, number |-> n]
PartRow(t, a, e, n) == [timelineName |-> t, arcName |-> a, episodeNumber |-> e, number |-> n]
ChapterRow(t, a, e, p, n) ==
  [timelineName |-> t, arcName |-> a, episodeNumber |-> e, partNumber |-> p, number |-> n]

TimelineRefused(r) == TimelineKey(r) \in TimelineKeys(timeline)
ArcRefused_keyOnly(r) == ArcKey(r) \in ArcKeys(arc)

ArcRefused(r) ==
  \/ ArcKey(r) \in ArcKeys(arc)
  \/ ArcTimelineRef(r) \notin TimelineKeys(timeline)
EpisodeRefused(r) ==
  \/ EpisodeKey(r) \in EpisodeKeys(episode)
  \/ EpisodeArcRef(r) \notin ArcKeys(arc)
PartRefused(r) ==
  \/ PartKey(r) \in PartKeys(part)
  \/ PartEpisodeRef(r) \notin EpisodeKeys(episode)
ChapterRefused(r) ==
  \/ ChapterKey(r) \in ChapterKeys(chapter)
  \/ ChapterEpisodeRef(r) \notin EpisodeKeys(episode)
  \/ ChapterPartRef(r) \notin PartKeys(part)

createTimeline(t) ==
  /\ CanCall
  /\ RowCount < MaxRows
  /\ ~TimelineRefused(TimelineRow(t))
  /\ timeline' = timeline \cup {TimelineRow(t)}
  /\ Inserted("createTimeline")
  /\ UNCHANGED <<arc, episode, part, chapter>>
  /\ UNCHANGED <<runnerVars, variant, pending>>

createArc(t, a) ==
  /\ CanCall
  /\ RowCount < MaxRows
  /\ ~ArcRefused(ArcRow(t, a))
  /\ arc' = arc \cup {ArcRow(t, a)}
  /\ Inserted("createArc")
  /\ UNCHANGED <<timeline, episode, part, chapter>>
  /\ UNCHANGED <<runnerVars, variant, pending>>

createEpisode(t, a, n) ==
  /\ CanCall
  /\ RowCount < MaxRows
  /\ ~EpisodeRefused(EpisodeRow(t, a, n))
  /\ episode' = episode \cup {EpisodeRow(t, a, n)}
  /\ Inserted("createEpisode")
  /\ UNCHANGED <<timeline, arc, part, chapter>>
  /\ UNCHANGED <<runnerVars, variant, pending>>

createPart(t, a, e, n) ==
  /\ CanCall
  /\ RowCount < MaxRows
  /\ ~PartRefused(PartRow(t, a, e, n))
  /\ part' = part \cup {PartRow(t, a, e, n)}
  /\ Inserted("createPart")
  /\ UNCHANGED <<timeline, arc, episode, chapter>>
  /\ UNCHANGED <<runnerVars, variant, pending>>

createChapter(t, a, e, p, n) ==
  /\ CanCall
  /\ RowCount < MaxRows
  /\ ~ChapterRefused(ChapterRow(t, a, e, p, n))
  /\ chapter' = chapter \cup {ChapterRow(t, a, e, p, n)}
  /\ Inserted("createChapter")
  /\ UNCHANGED <<timeline, arc, episode, part>>
  /\ UNCHANGED <<runnerVars, variant, pending>>

\* a create the store refuses, for some input
createRefused ==
  /\ CanCall
  /\ \/ /\ ~(\A t \in TimelineNames : ~TimelineRefused(TimelineRow(t)))
        /\ Rejected("createTimeline")
     \/ /\ ~(\A t \in TimelineNames, a \in ArcNames : ~ArcRefused(ArcRow(t, a)))
        /\ Rejected("createArc")
     \/ /\ ~(\A t \in TimelineNames, a \in ArcNames, n \in Numbers :
                ~EpisodeRefused(EpisodeRow(t, a, n)))
        /\ Rejected("createEpisode")
     \/ /\ ~(\A t \in TimelineNames, a \in ArcNames, e \in Numbers, n \in Numbers :
                ~PartRefused(PartRow(t, a, e, n)))
        /\ Rejected("createPart")
     \/ /\ ~(\A t \in TimelineNames, a \in ArcNames, e \in Numbers, p \in Numbers, n \in Numbers :
                ~ChapterRefused(ChapterRow(t, a, e, p, n)))
        /\ Rejected("createChapter")
  /\ UNCHANGED <<runnerVars, variant, pending>>

\* Each delete is one DELETE ... WHERE <identity>; the store removes the
\* matching row and everything the cascades reach.
deleteTimeline(t) ==
  /\ CanCall
  /\ TimelineRow(t) \in timeline
  /\ ApplyDelete("deleteTimeline",
                 DeleteCascade({r \in timeline : r.name = t}, {}, {}, {}, {}))
  /\ UNCHANGED <<runnerVars, variant, pending>>

deleteArc(t, a) ==
  /\ CanCall
  /\ ArcRow(t, a) \in arc
  /\ ApplyDelete("deleteArc",
                 DeleteCascade({}, {r \in arc : r.timelineName = t /\ r.name = a}, {}, {}, {}))
  /\ UNCHANGED <<runnerVars, variant, pending>>

deleteEpisode(t, a, e) ==
  /\ CanCall
  /\ EpisodeRow(t, a, e) \in episode
  /\ ApplyDelete("deleteEpisode",
                 DeleteCascade({}, {},
                    {r \in episode : r.timelineName = t /\ r.arcName = a /\ r.number = e},
                    {}, {}))
  /\ UNCHANGED <<runnerVars, variant, pending>>

deletePart(t, a, e, p) ==
  /\ CanCall
  /\ PartRow(t, a, e, p) \in part
  /\ ApplyDelete("deletePart",
                 DeleteCascade({}, {}, {},
                    {r \in part : /\ r.timelineName = t /\ r.arcName = a
                                  /\ r.episodeNumber = e /\ r.number = p},
                    {}))
  /\ UNCHANGED <<runnerVars, variant, pending>>

deleteChapter(t, a, e, n) ==
  /\ CanCall
  /\ <<t, a, e, n>> \in ChapterKeys(chapter)
  /\ ApplyDelete("deleteChapter",
                 DeleteCascade({}, {}, {}, {},
                    {r \in chapter : /\ r.timelineName = t /\ r.arcName = a
                                     /\ r.episodeNumber = e /\ r.number = n}))
  /\ UNCHANGED <<runnerVars, variant, pending>>

\* a delete whose WHERE clause matches no row, for some input: nothing changes
deleteMissing ==
  /\ CanCall
  /\ \/ /\ ~(\A t \in TimelineNames : TimelineRow(t) \in timeline)
        /\ ApplyDelete("deleteTimeline", DeleteCascade({}, {}, {}, {}, {}))
     \/ /\ ~(\A t \in TimelineNames, a \in ArcNames : ArcRow(t, a) \in arc)
        /\ ApplyDelete("deleteArc", DeleteCascade({}, {}, {}, {}, {}))
     \/ /\ ~(\A t \in TimelineNames, a \in ArcNames, e \in Numbers :
                EpisodeRow(t, a, e) \in episode)
        /\ ApplyDelete("deleteEpisode", DeleteCascade({}, {}, {}, {}, {}))
     \/ /\ ~(\A t \in TimelineNames, a \in ArcNames, e \in Numbers, p \in Numbers :
                PartRow(t, a, e, p) \in part)
        /\ ApplyDelete("deletePart", DeleteCascade({}, {}, {}, {}, {}))
     \/ /\ ~(\A t \in TimelineNames, a \in ArcNames, e \in Numbers, n \in Numbers :
                <<t, a, e, n>> \in ChapterKeys(chapter))
        /\ ApplyDelete("deleteChapter", DeleteCascade({}, {}, {}, {}, {}))
  /\ UNCHANGED <<runnerVars, variant, pending>>

\* the state after new Tracker(path) and a first init() that resolved
Migrated ==
  /\ ledgerTable = TRUE
  /\ ledger = Units
  /\ schema = {<<u, k, 1>> : u \in Units, k \in Stmts}
  /\ trx = NoTrx
  /\ pc = "idle"
  /\ executed = {}
  /\ migrations = [i \in 1..MaxUnits |-> i]
  /\ idx = MaxUnits + 1
  /\ stmt = NStmts
  /\ err = NoErr
  /\ broken = {}
  /\ impl = 1
  /\ log = [i \in 1..(2 * MaxUnits) |->
              IF i % 2 = 1 THEN <<"begin", (i + 1) \div 2>> ELSE <<"commit", i \div 2>>]
  /\ startLedger = {}
  /\ prev = [result |-> "ok", failed |-> NoUnit, ledger |-> Units]
  /\ commits = [u \in Units |-> 1]

InitTracker ==
  /\ Migrated
  /\ timeline = {}
  /\ arc = {}
  /\ episode = {}
  /\ part = {}
  /\ chapter = {}
  /\ lastOp = NoOp
  /\ variant = "composite"
  /\ pending = NoCall

NextTracker ==
  \/ \E t \in TimelineNames : createTimeline(t)
  \/ \E t \in TimelineNames, a \in ArcNames : createArc(t, a)
  \/ \E t \in TimelineNames, a \in ArcNames, n \in Numbers : createEpisode(t, a, n)
  \/ \E t \in TimelineNames, a \in ArcNames, e \in Numbers, n \in Numbers :
        createPart(t, a, e, n)
  \/ \E t \in TimelineNames, a \in ArcNames, e \in Numbers, p \in Numbers, n \in Numbers :
        createChapter(t, a, e, p, n)
  \/ createRefused
  \/ \E t \in TimelineNames : deleteTimeline(t)
  \/ \E t \in TimelineNames, a \in ArcNames : deleteArc(t, a)
  \/ \E t \in TimelineNames, a \in ArcNames, e \in Numbers : deleteEpisode(t, a, e)
  \/ \E t \in TimelineNames, a \in ArcNames, e \in Numbers, p \in Numbers :
        deletePart(t, a, e, p)
  \/ \E t \in TimelineNames, a \in ArcNames, e \in Numbers, n \in Numbers :
        deleteChapter(t, a, e, n)
  \/ deleteMissing

SpecTracker == InitTracker /\ [][NextTracker]_vars

\* ================================================================ records
\* The two Tracker classes of lib/tracker.ts that validate their input: the
\* composite-key class (parents named by their key columns) and the
\* surrogate-key class before it (integer ids, parents found by a lookup).
\* Records are the @echoes-io/models types, cut down to the fields the
\* classes treat differently: description on every kind, number on arcs,
\* part reference, title, date, outfit and kink on chapters.  Errors are
\* "ZodError", "not found" (a thrown Error), "constraint failed" and
\* "statement failed" (errors of the store), "none" for a call that returns.
Variants == {"composite", "surrogate"}

Undefined == "undefined"
Null == "null"
\* partNumber of a chapter that names no part
NoPart == 0
\* part_id of a chapter row without a part (SQL NULL)
NullId == 0

\* the last call: method, error thrown, value returned (<<>> for none) and
\* the number of rows it removed from each table
Idle == [op |-> "none", error |-> "none", returned |-> <<>>, removed |-> <<0, 0, 0, 0, 0>>]

\* Date.prototype.toISOString() and new Date(text)
toISOString(d) == <<d, "T00:00:00.000Z">>
NewDate(s) == s[1]

\* validated.outfit ?? null; so does the store with a value left undefined
OrNull(v) == IF v = Undefined THEN Null ELSE v

\* r.outfit ?? undefined
OrUndefined(v) == IF v = Null THEN Undefined ELSE v

\* row.outfit || undefined
TruthyOrUndefined(v) == IF v = Null \/ v = "" THEN Undefined ELSE v

\* r.description || ''
OrEmpty(v) == IF v = Null \/ v = "" THEN "" ELSE v

Ids(rows) == {r.id : r \in rows}

\* integer primary key: an id no row of the table carries.  No method
\* returns or orders by an id, so the least free one stands for any.
FreshId(rows) ==
  CHOOSE i \in 1..(Cardinality(rows) + 1) :
     /\ i \notin Ids(rows)
     /\ \A j \in 1..(i - 1) : j \in Ids(rows)

\* .set({...}): of the columns cols, those the payload defines take its
\* values
Merge(r, data, cols) ==
  [f \in DOMAIN r |-> IF f \in cols \cap DOMAIN data THEN data[f] ELSE r[f]]

\* ---------------------------------------------------------------- reading
\* Each view pairs a row's primary key with the record the get methods
\* build from the row; with surrogate keys the views are the joins of the
\* select statements.
Timelines ==
  {[id |-> IF variant = "composite" THEN TimelineKey(r) ELSE r.id,
    rec |-> [name |-> r.name, description |-> OrEmpty(r.description)]] : r \in timeline}

Arcs ==
  IF variant = "composite"
  THEN {[id |-> ArcKey(r),
         rec |-> [timelineName |-> r.timelineName, name |-> r.name, number |-> r.number,
                  description |-> OrEmpty(r.description)]] : r \in arc}
  ELSE {[id |-> q[1].id,
         rec |-> [timelineName |-> q[2].rec.name, name |-> q[1].name,
                  number |-> q[1].number, description |-> OrEmpty(q[1].description)]] :
          q \in {j \in arc \X Timelines : j[1].timeline_id = j[2].id}}

Episodes ==
  IF variant = "composite"
  THEN {[id |-> EpisodeKey(r),
         rec |-> [timelineName |-> r.timelineName, arcName |-> r.arcName,
                  number |-> r.number, description |-> OrEmpty(r.description)]] :
          r \in episode}
  ELSE {[id |-> q[1].id,
         rec |-> [timelineName |-> q[2].rec.timelineName, arcName |-> q[2].rec.name,
                  number |-> q[1].number, description |-> OrEmpty(q[1].description)]] :
          q \in {j \in episode \X Arcs : j[1].arc_id = j[2].id}}

Parts ==
  IF variant = "composite"
  THEN {[id |-> PartKey(r),
         rec |-> [timelineName |-> r.timelineName, arcName |-> r.arcName,
                  episodeNumber |-> r.episodeNumber, number |-> r.number,
                  description |-> OrEmpty(r.description)]] : r \in part}
  ELSE {[id |-> q[1].id,
         rec |-> [timelineName |-> q[2].rec.timelineName, arcName |-> q[2].rec.arcName,
                  episodeNumber |-> q[2].rec.number, number |-> q[1].number,
                  description |-> OrEmpty(q[1].description)]] :
          q \in {j \in part \X Episodes : j[1].episode_id = j[2].id}}

\* with surrogate keys: leftJoin('part', ...) gives part.number or NULL,
\* which partNumber || 0 turns to 0
Chapters ==
  IF variant = "composite"
  THEN {[id |-> ChapterKey(r),
         rec |-> [timelineName |-> r.timelineName, arcName |-> r.arcName,
                  episodeNumber |-> r.episodeNumber, partNumber |-> r.partNumber,
                  number |-> r.number, title |-> r.title, date |-> NewDate(r.date),
                  outfit |-> OrUndefined(r.outfit), kink |-> OrUndefined(r.kink)]] :
          r \in chapter}
  ELSE {[id |-> q[1].id,
         rec |-> [timelineName |-> q[2].rec.timelineName, arcName |-> q[2].rec.arcName,
                  episodeNumber |-> q[2].rec.number,
                  partNumber |-> IF q[1].part_id = NullId THEN NoPart
                                 ELSE (CHOOSE p \in part : p.id = q[1].part_id).number,
                  number |-> q[1].number, title |-> q[1].title,
                  date |-> NewDate(q[1].date),
                  outfit |-> TruthyOrUndefined(q[1].outfit),
                  kink |-> TruthyOrUndefined(q[1].kink)]] :
          q \in {j \in chapter \X Episodes : j[1].episode_id = j[2].id}}

\* .where(column, '=', value), once per field of cond
Where(view, cond) == {i \in view : \A f \in DOMAIN cond : i.rec[f] = cond[f]}

\* executeTakeFirst() and the row ? {...} : undefined that follows it: the
\* possible results, <<>> for undefined.  Which of several matching rows
\* comes first is the store's choice.
TakeFirst(items) == IF items = {} THEN {<<>>} ELSE {<<i.rec>> : i \in items}

OrderBy_none(items) ==
  {[k \in 1..Cardinality(items) |-> f[k].rec] :
     f \in {g \in [1..Cardinality(items) -> items] :
              \A x, y \in 1..Cardinality(items) : x # y => g[x] # g[y]}}

\* .orderBy('number').execute() and rows.map(...): the possible results, one
\* per order the store may give to rows with equal numbers
OrderBy(items) ==
  {[k \in 1..Cardinality(items) |-> f[k].rec] :
     f \in {g \in [1..Cardinality(items) -> items] :
              /\ \A x, y \in 1..Cardinality(items) : x # y => g[x] # g[y]
              /\ \A x, y \in 1..Cardinality(items) :
                    x < y => g[x].rec.number <= g[y].rec.number}}

getTimeline(t) == TakeFirst(Where(Timelines, [name |-> t]))
getArc(t, a) == TakeFirst(Where(Arcs, [timelineName |-> t, name |-> a]))
getArcs(t) == OrderBy(Where(Arcs, [timelineName |-> t]))
getEpisode(t, a, e) ==
  TakeFirst(Where(Episodes, [timelineName |-> t, arcName |-> a, number |-> e]))
getEpisodes(t, a) == OrderBy(Where(Episodes, [timelineName |-> t, arcName |-> a]))
getPart(t, a, e, p) ==
  TakeFirst(Where(Parts, [timelineName |-> t, arcName |-> a, episodeNumber |-> e,
                          number |-> p]))
getParts(t, a, e) ==
  OrderBy(Where(Parts, [timelineName |-> t, arcName |-> a, episodeNumber |-> e]))
getChapter(t, a, e, n) ==
  TakeFirst(Where(Chapters, [timelineName |-> t, arcName |-> a, episodeNumber |-> e,
                             number |-> n]))
getChapters(t, a, e) ==
  OrderBy(Where(Chapters, [timelineName |-> t, arcName |-> a, episodeNumber |-> e]))

\* ------------------------------------------------------ outcome of a call
Outcome(op, error, returned) ==
  lastOp' = [op |-> op, error |-> error, returned |-> returned,
             removed |-> <<Cardinality(timeline \ timeline'), Cardinality(arc \ arc'),
                           Cardinality(episode \ episode'), Cardinality(part \ part'),
                           Cardinality(chapter \ chapter')>>]

\* an error leaves the method before a statement changed a row
Fail(op, error) ==
  /\ UNCHANGED <<timeline, arc, episode, part, chapter>>
  /\ Outcome(op, error, <<>>)

\* the get method that ends an update, and its throw when that finds nothing
Reread(op, got) ==
  \E g \in got : Outcome(op, IF g = <<>> THEN "not found" ELSE "none", g)

\* XSchema.parse(data) and XSchema.partial().parse(data) throw a ZodError:
\* of the rules of @echoes-io/models the source shows one, a name must not
\* be empty
SchemaRejects(data) ==
  \E f \in DOMAIN data \cap {"name", "timelineName", "arcName"} : data[f] = ""

\* rows of the given tables whose foreign key finds no parent row
Dangling(T, A, E, P, C) ==
  IF variant = "composite"
  THEN {r \in A : ArcTimelineRef(r) \notin TimelineKeys(T)}
         \cup {r \in E : EpisodeArcRef(r) \notin ArcKeys(A)}
         \cup {r \in P : PartEpisodeRef(r) \notin EpisodeKeys(E)}
         \cup {r \in C : ChapterEpisodeRef(r) \notin EpisodeKeys(E)}
         \cup {r \in C : ChapterPartRef(r) \notin PartKeys(P)}
  ELSE {r \in A : r.timeline_id \notin Ids(T)}
         \cup {r \in E : r.arc_id \notin Ids(A)}
         \cup {r \in P : r.episode_id \notin Ids(E)}
         \cup {r \in C : r.episode_id \notin Ids(E)}
         \cup {r \in C : r.part_id # NullId /\ r.part_id \notin Ids(P)}

UpdateRefused_keysOnly(T, A, E, P, C) ==
  \/ Cardinality(TimelineKeys(T)) < Cardinality(timeline)
  \/ Cardinality(ArcKeys(A)) < Cardinality(arc)
  \/ Cardinality(EpisodeKeys(E)) < Cardinality(episode)
  \/ Cardinality(PartKeys(P)) < Cardinality(part)
  \/ Cardinality(ChapterKeys(C)) < Cardinality(chapter)

\* an UPDATE of the composite-key tables the store refuses: the tables it
\* would leave have two rows with one primary key, or break a foreign key
\* (ON UPDATE is left at NO ACTION)
UpdateRefused(T, A, E, P, C) ==
  \/ Cardinality(TimelineKeys(T)) < Cardinality(timeline)
  \/ Cardinality(ArcKeys(A)) < Cardinality(arc)
  \/ Cardinality(EpisodeKeys(E)) < Cardinality(episode)
  \/ Cardinality(PartKeys(P)) < Cardinality(part)
  \/ Cardinality(ChapterKeys(C)) < Cardinality(chapter)
  \/ Dangling(T, A, E, P, C) # {}

\* the chapter columns as the statements write them: date as text; outfit
\* and kink ?? null in the composite-key class, as given in the other
ChapterColumns(data) ==
  [f \in DOMAIN data |->
     IF f = "date" THEN toISOString(data[f])
     ELSE IF f \in {"outfit", "kink"} /\ variant = "composite" THEN OrNull(data[f])
     ELSE data[f]]

\* where('id', '=', <subquery>): the id of the first row the subquery
\* finds, or NULL, which equals no id
FirstId(items) == IF items = {} THEN {NullId} ELSE Ids(items)

\* an UPDATE whose .set() defines no column changes no row; whether the
\* statement fails in the store or passes, the source does not settle
NothingSet(op, got) ==
  /\ UNCHANGED <<timeline, arc, episode, part, chapter>>
  /\ \/ Outcome(op, "statement failed", <<>>)
     \/ Reread(op, got)

\* rows removed by the ON DELETE CASCADE of the id references
Sk_DeleteCascade(dT, dA, dE, dP, dC) ==
  LET goneA == dA \cup {r \in arc : r.timeline_id \in Ids(dT)}
      goneE == dE \cup {r \in episode : r.arc_id \in Ids(goneA)}
      goneP == dP \cup {r \in part : r.episode_id \in Ids(goneE)}
      goneC == dC \cup {r \in chapter : r.episode_id \in Ids(goneE)}
                  \cup {r \in chapter : r.part_id \in Ids(goneP)}
  IN [timeline |-> dT, arc |-> goneA, episode |-> goneE, part |-> goneP, chapter |-> goneC]

\* DELETE with its cascades; a delete returns nothing and never throws
Remove(op, g) ==
  /\ timeline' = timeline \ g.timeline
  /\ arc' = arc \ g.arc
  /\ episode' = episode \ g.episode
  /\ part' = part \ g.part
  /\ chapter' = chapter \ g.chapter
  /\ Outcome(op, "none", <<>>)

\* ------------------------------------------------------------ the methods
\* One action per public method, with the body of the class in use.  A
\* create validates, writes one row and returns the validated record; with
\* surrogate keys it first looks the parent up and throws when there is
\* none.  An update validates, changes the row the caller's identity
\* selects and returns what the get method then finds under that identity.
Tracker_createTimeline_late(X) ==
  /\ CanCall
  /\ UNCHANGED <<runnerVars, variant, pending>>
  /\ IF variant = "composite"
     THEN /\ timeline' = timeline \cup {X}
          /\ UNCHANGED <<arc, episode, part, chapter>>
          /\ Outcome("createTimeline",
                     IF SchemaRejects(X) THEN "ZodError" ELSE "none", <<>>)
     ELSE IF SchemaRejects(X) THEN Fail("createTimeline", "ZodError")
     ELSE IF Where(Timelines, [name |-> X.name]) # {}
       THEN Fail("createTimeline", "constraint failed")
     ELSE /\ timeline' = timeline \cup
                 {[id |-> FreshId(timeline), name |-> X.name,
                   description |-> OrNull(X.description)]}
          /\ UNCHANGED <<arc, episode, part, chapter>>
          /\ Outcome("createTimeline", "none", <<X>>)

Tracker_createTimeline(X) ==
  /\ CanCall
  /\ UNCHANGED <<runnerVars, variant, pending>>
  /\ IF SchemaRejects(X) THEN Fail("createTimeline", "ZodError")
     ELSE IF variant = "composite"
     THEN IF TimelineRefused(X) THEN Fail("createTimeline", "constraint failed")
          ELSE /\ timeline' = timeline \cup {X}
               /\ UNCHANGED <<arc, episode, part, chapter>>
               /\ Outcome("createTimeline", "none", <<X>>)
     ELSE IF Where(Timelines, [name |-> X.name]) # {}
       THEN Fail("createTimeline", "constraint failed")
     ELSE /\ timeline' = timeline \cup
                 {[id |-> FreshId(timeline), name |-> X.name,
                   description |-> OrNull(X.description)]}
          /\ UNCHANGED <<arc, episode, part, chapter>>
          /\ Outcome("createTimeline", "none", <<X>>)

Tracker_createArc(X) ==
  /\ CanCall
  /\ UNCHANGED <<runnerVars, variant, pending>>
  /\ IF SchemaRejects(X) THEN Fail("createArc", "ZodError")
     ELSE IF variant = "composite"
     THEN IF ArcRefused(X) THEN Fail("createArc", "constraint failed")
          ELSE /\ arc' = arc \cup {X}
               /\ UNCHANGED <<timeline, episode, part, chapter>>
               /\ Outcome("createArc", "none", <<X>>)
     ELSE LET parents == Where(Timelines, [name |-> X.timelineName])
          IN IF parents = {} THEN Fail("createArc", "not found")
             ELSE \E tid \in Ids(parents) :
                  /\ arc' = arc \cup
                       {[id |-> FreshId(arc), timeline_id |-> tid, name |-> X.name,
                         number |-> X.number, description |-> OrNull(X.description)]}
                  /\ UNCHANGED <<timeline, episode, part, chapter>>
                  /\ Outcome("createArc", "none", <<X>>)

Tracker_createEpisode(X) ==
  /\ CanCall
  /\ UNCHANGED <<runnerVars, variant, pending>>
  /\ IF SchemaRejects(X) THEN Fail("createEpisode", "ZodError")
     ELSE IF variant = "composite"
     THEN IF EpisodeRefused(X) THEN Fail("createEpisode", "constraint failed")
          ELSE /\ episode' = episode \cup {X}
               /\ UNCHANGED <<timeline, arc, part, chapter>>
               /\ Outcome("createEpisode", "none", <<X>>)
     ELSE LET parents == Where(Arcs, [timelineName |-> X.timelineName, name |-> X.arcName])
          IN IF parents = {} THEN Fail("createEpisode", "not found")
             ELSE \E aid \in Ids(parents) :
                  /\ episode' = episode \cup
                       {[id |-> FreshId(episode), arc_id |-> aid, number |-> X.number,
                         description |-> OrNull(X.description)]}
                  /\ UNCHANGED <<timeline, arc, part, chapter>>
                  /\ Outcome("createEpisode", "none", <<X>>)

Tracker_createPart(X) ==
  /\ CanCall
  /\ UNCHANGED <<runnerVars, variant, pending>>
  /\ IF SchemaRejects(X) THEN Fail("createPart", "ZodError")
     ELSE IF variant = "composite"
     THEN IF PartRefused(X) THEN Fail("createPart", "constraint failed")
          ELSE /\ part' = part \cup {X}
               /\ UNCHANGED <<timeline, arc, episode, chapter>>
               /\ Outcome("createPart", "none", <<X>>)
     ELSE LET parents == Where(Episodes, [timelineName |-> X.timelineName,
                                          arcName |-> X.arcName,
                                          number |-> X.episodeNumber])
          IN IF parents = {} THEN Fail("createPart", "not found")
             ELSE \E eid \in Ids(parents) :
                  /\ part' = part \cup
                       {[id |-> FreshId(part), episode_id |-> eid, number |-> X.number,
                         description |-> OrNull(X.description)]}
                  /\ UNCHANGED <<timeline, arc, episode, chapter>>
                  /\ Outcome("createPart", "none", <<X>>)

\* with surrogate keys: let partId = null; if (validated.partNumber) { the
\* part of that episode with that number, or a throw }
Tracker_createChapter(X) ==
  /\ CanCall
  /\ UNCHANGED <<runnerVars, variant, pending>>
  /\ IF SchemaRejects(X) THEN Fail("createChapter", "ZodError")
     ELSE IF variant = "composite"
     THEN IF ChapterRefused(X) THEN Fail("createChapter", "constraint failed")
          ELSE /\ chapter' = chapter \cup {ChapterColumns(X)}
               /\ UNCHANGED <<timeline, arc, episode, part>>
               /\ Outcome("createChapter", "none", <<X>>)
     ELSE LET parents == Where(Episodes, [timelineName |-> X.timelineName,
                                          arcName |-> X.arcName,
                                          number |-> X.episodeNumber])
          IN IF parents = {} THEN Fail("createChapter", "not found")
             ELSE \E eid \in Ids(parents) :
                  LET pids == IF X.partNumber = NoPart THEN {NullId}
                              ELSE Ids({q \in part : /\ q.episode_id = eid
                                                     /\ q.number = X.partNumber})
                  IN IF pids = {} THEN Fail("createChapter", "not found")
                     ELSE \E pid \in pids :
                          /\ chapter' = chapter \cup
                               {[id |-> FreshId(chapter), episode_id |-> eid,
                                 part_id |-> pid, number |-> X.number, title |-> X.title,
                                 date |-> toISOString(X.date),
                                 outfit |-> OrNull(X.outfit), kink |-> OrNull(X.kink)]}
                          /\ UNCHANGED <<timeline, arc, episode, part>>
                          /\ Outcome("createChapter", "none", <<X>>)

Tracker_updateTimeline(t, data) ==
  /\ CanCall
  /\ UNCHANGED <<runnerVars, variant, pending>>
  /\ IF SchemaRejects(data) THEN Fail("updateTimeline", "ZodError")
     ELSE IF variant = "composite"
     THEN LET new == {IF r.name = t THEN Merge(r, data, DOMAIN r) ELSE r : r \in timeline}
          IN IF UpdateRefused(new, arc, episode, part, chapter)
             THEN Fail("updateTimeline", "constraint failed")
             ELSE /\ timeline' = new
                  /\ UNCHANGED <<arc, episode, part, chapter>>
                  /\ Reread("updateTimeline", getTimeline(t)')
     ELSE IF DOMAIN data \cap {"description"} = {}
       THEN NothingSet("updateTimeline", getTimeline(t))
     ELSE /\ timeline' = {IF r.name = t THEN Merge(r, data, {"description"}) ELSE r :
                            r \in timeline}
          /\ UNCHANGED <<arc, episode, part, chapter>>
          /\ Reread("updateTimeline", getTimeline(t)')

Tracker_updateArc(t, a, data) ==
  /\ CanCall
  /\ UNCHANGED <<runnerVars, variant, pending>>
  /\ IF SchemaRejects(data) THEN Fail("updateArc", "ZodError")
     ELSE IF variant = "composite"
     THEN LET new == {IF r.timelineName = t /\ r.name = a
                      THEN Merge(r, data, DOMAIN r) ELSE r : r \in arc}
          IN IF UpdateRefused(timeline, new, episode, part, chapter)
             THEN Fail("updateArc", "constraint failed")
             ELSE /\ arc' = new
                  /\ UNCHANGED <<timeline, episode, part, chapter>>
                  /\ Reread("updateArc", getArc(t, a)')
     ELSE LET found == Where(Arcs, [timelineName |-> t, name |-> a])
          IN IF found = {} THEN Fail("updateArc", "not found")
             ELSE IF DOMAIN data \cap {"number", "description"} = {}
               THEN NothingSet("updateArc", getArc(t, a))
             ELSE \E id \in Ids(found) :
                  /\ arc' = {IF r.id = id THEN Merge(r, data, {"number", "description"})
                             ELSE r : r \in arc}
                  /\ UNCHANGED <<timeline, episode, part, chapter>>
                  /\ Reread("updateArc", getArc(t, a)')

Tracker_updateEpisode(t, a, e, data) ==
  /\ CanCall
  /\ UNCHANGED <<runnerVars, variant, pending>>
  /\ IF SchemaRejects(data) THEN Fail("updateEpisode", "ZodError")
     ELSE IF variant = "composite"
     THEN LET new == {IF r.timelineName = t /\ r.arcName = a /\ r.number = e
                      THEN Merge(r, data, DOMAIN r) ELSE r : r \in episode}
          IN IF UpdateRefused(timeline, arc, new, part, chapter)
             THEN Fail("updateEpisode", "constraint failed")
             ELSE /\ episode' = new
                  /\ UNCHANGED <<timeline, arc, part, chapter>>
                  /\ Reread("updateEpisode", getEpisode(t, a, e)')
     ELSE LET found == Where(Episodes, [timelineName |-> t, arcName |-> a, number |-> e])
          IN IF found = {} THEN Fail("updateEpisode", "not found")
             ELSE IF DOMAIN data \cap {"description"} = {}
               THEN NothingSet("updateEpisode", getEpisode(t, a, e))
             ELSE \E id \in Ids(found) :
                  /\ episode' = {IF r.id = id THEN Merge(r, data, {"description"})
                                 ELSE r : r \in episode}
                  /\ UNCHANGED <<timeline, arc, part, chapter>>
                  /\ Reread("updateEpisode", getEpisode(t, a, e)')

Tracker_updatePart(t, a, e, p, data) ==
  /\ CanCall
  /\ UNCHANGED <<runnerVars, variant, pending>>
  /\ IF SchemaRejects(data) THEN Fail("updatePart", "ZodError")
     ELSE IF variant = "composite"
     THEN LET new == {IF /\ r.timelineName = t /\ r.arcName = a
                         /\ r.episodeNumber = e /\ r.number = p
                      THEN Merge(r, data, DOMAIN r) ELSE r : r \in part}
          IN IF UpdateRefused(timeline, arc, episode, new, chapter)
             THEN Fail("updatePart", "constraint failed")
             ELSE /\ part' = new
                  /\ UNCHANGED <<timeline, arc, episode, chapter>>
                  /\ Reread("updatePart", getPart(t, a, e, p)')
     ELSE LET found == Where(Parts, [timelineName |-> t, arcName |-> a,
                                     episodeNumber |-> e, number |-> p])
          IN IF found = {} THEN Fail("updatePart", "not found")
             ELSE IF DOMAIN data \cap {"description"} = {}
               THEN NothingSet("updatePart", getPart(t, a, e, p))
             ELSE \E id \in Ids(found) :
                  /\ part' = {IF r.id = id THEN Merge(r, data, {"description"})
                              ELSE r : r \in part}
                  /\ UNCHANGED <<timeline, arc, episode, chapter>>
                  /\ Reread("updatePart", getPart(t, a, e, p)')

Tracker_updateChapter(t, a, e, n, data) ==
  /\ CanCall
  /\ UNCHANGED <<runnerVars, variant, pending>>
  /\ IF SchemaRejects(data) THEN Fail("updateChapter", "ZodError")
     ELSE IF variant = "composite"
     THEN LET new == {IF /\ r.timelineName = t /\ r.arcName = a
                         /\ r.episodeNumber = e /\ r.number = n
                      THEN Merge(r, ChapterColumns(data), DOMAIN r) ELSE r : r \in chapter}
          IN IF UpdateRefused(timeline, arc, episode, part, new)
             THEN Fail("updateChapter", "constraint failed")
             ELSE /\ chapter' = new
                  /\ UNCHANGED <<timeline, arc, episode, part>>
                  /\ Reread("updateChapter", getChapter(t, a, e, n)')
     ELSE LET found == Where(Chapters, [timelineName |-> t, arcName |-> a,
                                        episodeNumber |-> e, number |-> n])
          IN IF found = {} THEN Fail("updateChapter", "not found")
             ELSE IF DOMAIN data \cap {"title", "date", "outfit", "kink"} = {}
               THEN NothingSet("updateChapter", getChapter(t, a, e, n))
             ELSE \E id \in Ids(found) :
                  /\ chapter' = {IF r.id = id
                                 THEN Merge(r, ChapterColumns(data),
                                            {"title", "date", "outfit", "kink"})
                                 ELSE r : r \in chapter}
                  /\ UNCHANGED <<timeline, arc, episode, part>>
                  /\ Reread("updateChapter", getChapter(t, a, e, n)')

Tracker_deleteTimeline(t) ==
  /\ CanCall
  /\ UNCHANGED <<runnerVars, variant, pending>>
  /\ IF variant = "composite"
     THEN Remove("deleteTimeline",
                 DeleteCascade({r \in timeline : r.name = t}, {}, {}, {}, {}))
     ELSE Remove("deleteTimeline",
                 Sk_DeleteCascade({r \in timeline : r.name = t}, {}, {}, {}, {}))

Tracker_deleteArc_byName(t, a) ==
  /\ CanCall
  /\ UNCHANGED <<runnerVars, variant, pending>>
  /\ IF variant = "composite"
     THEN Remove("deleteArc", DeleteCascade({}, {r \in arc : r.name = a}, {}, {}, {}))
     ELSE \E id \in FirstId(Where(Arcs, [name |-> a])) :
             Remove("deleteArc",
                    Sk_DeleteCascade({}, {r \in arc : r.id = id}, {}, {}, {}))

Tracker_deleteArc(t, a) ==
  /\ CanCall
  /\ UNCHANGED <<runnerVars, variant, pending>>
  /\ IF variant = "composite"
     THEN Remove("deleteArc",
                 DeleteCascade({}, {r \in arc : r.timelineName = t /\ r.name = a},
                               {}, {}, {}))
     ELSE \E id \in FirstId(Where(Arcs, [timelineName |-> t, name |-> a])) :
             Remove("deleteArc",
                    Sk_DeleteCascade({}, {r \in arc : r.id = id}, {}, {}, {}))

Tracker_deleteEpisode(t, a, e) ==
  /\ CanCall
  /\ UNCHANGED <<runnerVars, variant, pending>>
  /\ IF variant = "composite"
     THEN Remove("deleteEpisode",
                 DeleteCascade({}, {},
                    {r \in episode : r.timelineName = t /\ r.arcName = a /\ r.number = e},
                    {}, {}))
     ELSE \E id \in FirstId(Where(Episodes, [timelineName |-> t, arcName |-> a,
                                             number |-> e])) :
             Remove("deleteEpisode",
                    Sk_DeleteCascade({}, {}, {r \in episode : r.id = id}, {}, {}))

Tracker_deletePart(t, a, e, p) ==
  /\ CanCall
  /\ UNCHANGED <<runnerVars, variant, pending>>
  /\ IF variant = "composite"
     THEN Remove("deletePart",
                 DeleteCascade({}, {}, {},
                    {r \in part : /\ r.timelineName = t /\ r.arcName = a
                                  /\ r.episodeNumber = e /\ r.number = p}, {}))
     ELSE \E id \in FirstId(Where(Parts, [timelineName |-> t, arcName |-> a,
                                          episodeNumber |-> e, number |-> p])) :
             Remove("deletePart",
                    Sk_DeleteCascade({}, {}, {}, {r \in part : r.id = id}, {}))

Tracker_deleteChapter(t, a, e, n) ==
  /\ CanCall
  /\ UNCHANGED <<runnerVars, variant, pending>>
  /\ IF variant = "composite"
     THEN Remove("deleteChapter",
                 DeleteCascade({}, {}, {}, {},
                    {r \in chapter : /\ r.timelineName = t /\ r.arcName = a
                                     /\ r.episodeNumber = e /\ r.number = n}))
     ELSE \E id \in FirstId(Where(Chapters, [timelineName |-> t, arcName |-> a,
                                             episodeNumber |-> e, number |-> n])) :
             Remove("deleteChapter",
                    Sk_DeleteCascade({}, {}, {}, {}, {r \in chapter : r.id = id}))

\* the state after new Tracker(path) and init() of the surrogate-key class,
\* which runs migration001 itself and keeps no ledger
Sk_Migrated ==
  /\ ledgerTable = FALSE
  /\ ledger = {}
  /\ schema = {<<1, k, 1>> : k \in Stmts}
  /\ trx = NoTrx
  /\ pc = "idle"
  /\ executed = {}
  /\ migrations = <<>>
  /\ idx = 1
  /\ stmt = 0
  /\ err = NoErr
  /\ broken = {}
  /\ impl = 1
  /\ log = <<>>
  /\ startLedger = {}
  /\ prev = [result |-> "none", failed |-> NoUnit, ledger |-> {}]
  /\ commits = [u \in Units |-> 0]

\* the state after new Tracker(path) and init() of either class
Ready ==
  /\ variant \in Variants
  /\ pending = NoCall
  /\ IF variant = "composite" THEN Migrated ELSE Sk_Migrated

\* ----------------------------------------------- calls on a wide hierarchy
\* the composite-key class with two arcs and their numbers, two parts and
\* two chapters of one episode; payloads of update calls name identity and
\* parent fields
MaxRecords == 7

CrudInputs ==
  [timelines |-> {[name |-> "t1", description |-> "d"]},
   arcs |-> {[timelineName |-> "t1", name |-> a[1], number |-> a[2], description |-> "d"] :
               a \in {<<"a1", 1>>, <<"a2", 1>>, <<"a2", 2>>}},
   episodes |-> {[timelineName |-> "t1", arcName |-> "a1", number |-> 1,
                  description |-> "d"]},
   parts |-> {[timelineName |-> "t1", arcName |-> "a1", episodeNumber |-> 1,
               number |-> n, description |-> "d"] : n \in {1, 2}},
   chapters |-> {[timelineName |-> "t1", arcName |-> "a1", episodeNumber |-> 1,
                  partNumber |-> p, number |-> n, title |-> "T", date |-> 1,
                  outfit |-> Undefined, kink |-> Undefined] :
                   p \in {NoPart, 1, 2}, n \in {1, 2}},
   timelinePatches |-> {[name |-> "t2"]},
   arcPatches |-> {[name |-> "a2"], [timelineName |-> "t2"], [number |-> 2]},
   episodePatches |-> {[number |-> 2]},
   partPatches |-> {[number |-> 2]},
   chapterPatches |-> {[partNumber |-> 2], [title |-> "Updated"]}]

InitCrud ==
  /\ Ready
  /\ variant = "composite"
  /\ timeline = {}
  /\ arc = {}
  /\ episode = {}
  /\ part = {}
  /\ chapter = {}
  /\ lastOp = Idle

NextCrud ==
  \/ RowCount < MaxRecords /\ \E X \in CrudInputs.timelines : Tracker_createTimeline(X)
  \/ RowCount < MaxRecords /\ \E X \in CrudInputs.arcs : Tracker_createArc(X)
  \/ RowCount < MaxRecords /\ \E X \in CrudInputs.episodes : Tracker_createEpisode(X)
  \/ RowCount < MaxRecords /\ \E X \in CrudInputs.parts : Tracker_createPart(X)
  \/ RowCount < MaxRecords /\ \E X \in CrudInputs.chapters : Tracker_createChapter(X)
  \/ \E data \in CrudInputs.timelinePatches : Tracker_updateTimeline("t1", data)
  \/ \E a \in {"a1", "a2"}, data \in CrudInputs.arcPatches :
        Tracker_updateArc("t1", a, data)
  \/ \E data \in CrudInputs.episodePatches : Tracker_updateEpisode("t1", "a1", 1, data)
  \/ \E p \in {1, 2}, data \in CrudInputs.partPatches :
        Tracker_updatePart("t1", "a1", 1, p, data)
  \/ \E n \in {1, 2}, data \in CrudInputs.chapterPatches :
        Tracker_updateChapter("t1", "a1", 1, n, data)
  \/ \E t \in {"t1", "t2"} : Tracker_deleteTimeline(t)
  \/ \E a \in {"a1", "a2"} : Tracker_deleteArc("t1", a)
  \/ Tracker_deleteEpisode("t1", "a1", 1)
  \/ \E p \in {1, 2} : Tracker_deletePart("t1", "a1", 1, p)
  \/ \E n \in {1, 2} : Tracker_deleteChapter("t1", "a1", 1, n)

SpecCrud == InitCrud /\ [][NextCrud]_vars

\* ------------------------------------------------- calls on a single chain
\* either class with one timeline, arc, episode, part and chapter; some
\* payloads fail validation
MaxChain == 5

ChainInputs ==
  [timelines |-> {[name |-> n, description |-> "d"] : n \in {"t1", ""}},
   arcs |-> {[timelineName |-> t, name |-> "a1", number |-> 1, description |-> "d"] :
               t \in {"t1", ""}},
   episodes |-> {[timelineName |-> t, arcName |-> "a1", number |-> 1,
                  description |-> "d"] : t \in {"t1", ""}},
   parts |-> {[timelineName |-> t, arcName |-> "a1", episodeNumber |-> 1, number |-> 1,
               description |-> "d"] : t \in {"t1", ""}},
   chapters |-> {[timelineName |-> t, arcName |-> "a1", episodeNumber |-> 1,
                  partNumber |-> p, number |-> 1, title |-> "T", date |-> 1,
                  outfit |-> Undefined, kink |-> Undefined] :
                   t \in {"t1", ""}, p \in {NoPart, 1}},
   timelinePatches |-> {[description |-> "d"], [name |-> ""]},
   arcPatches |-> {[description |-> "d"], [name |-> ""]},
   episodePatches |-> {[description |-> "d"], [arcName |-> ""]},
   partPatches |-> {[description |-> "d"], [arcName |-> ""]},
   chapterPatches |-> {[title |-> "Updated"], [arcName |-> ""]}]

InitChain ==
  /\ Ready
  /\ timeline = {}
  /\ arc = {}
  /\ episode = {}
  /\ part = {}
  /\ chapter = {}
  /\ lastOp = Idle

NextChain ==
  \/ RowCount < MaxChain /\ \E X \in ChainInputs.timelines : Tracker_createTimeline(X)
  \/ RowCount < MaxChain /\ \E X \in ChainInputs.arcs : Tracker_createArc(X)
  \/ RowCount < MaxChain /\ \E X \in ChainInputs.episodes : Tracker_createEpisode(X)
  \/ RowCount < MaxChain /\ \E X \in ChainInputs.parts : Tracker_createPart(X)
  \/ RowCount < MaxChain /\ \E X \in ChainInputs.chapters : Tracker_createChapter(X)
  \/ \E data \in ChainInputs.timelinePatches : Tracker_updateTimeline("t1", data)
  \/ \E data \in ChainInputs.arcPatches : Tracker_updateArc("t1", "a1", data)
  \/ \E data \in ChainInputs.episodePatches : Tracker_updateEpisode("t1", "a1", 1, data)
  \/ \E data \in ChainInputs.partPatches : Tracker_updatePart("t1", "a1", 1, 1, data)
  \/ \E data \in ChainInputs.chapterPatches :
        Tracker_updateChapter("t1", "a1", 1, 1, data)
  \/ Tracker_deleteTimeline("t1")
  \/ Tracker_deleteArc("t1", "a1")
  \/ Tracker_deleteEpisode("t1", "a1", 1)
  \/ Tracker_deletePart("t1", "a1", 1, 1)
  \/ Tracker_deleteChapter("t1", "a1", 1, 1)

SpecChain == InitChain /\ [][NextChain]_vars

\* --------------------------------------------------- calls on one episode
\* the records the tests create before each case
Seed ==
  [timeline |-> [name |-> "t1", description |-> "d"],
   arc |-> [timelineName |-> "t1", name |-> "a1", number |-> 1, description |-> "d"],
   episode |-> [timelineName |-> "t1", arcName |-> "a1", number |-> 1,
                description |-> "d"],
   part |-> [timelineName |-> "t1", arcName |-> "a1", episodeNumber |-> 1, number |-> 1,
             description |-> "d"]]

\* either class after createTimeline, createArc and createEpisode of them
EpisodeCreated ==
  /\ Ready
  /\ timeline = IF variant = "composite" THEN {Seed.timeline}
                ELSE {[id |-> 1, name |-> "t1", description |-> "d"]}
  /\ arc = IF variant = "composite" THEN {Seed.arc}
           ELSE {[id |-> 1, timeline_id |-> 1, name |-> "a1", number |-> 1,
                  description |-> "d"]}
  /\ episode = IF variant = "composite" THEN {Seed.episode}
               ELSE {[id |-> 1, arc_id |-> 1, number |-> 1, description |-> "d"]}

\* parts and chapters of the episode: two part numbers, two chapter numbers
MaxPerEpisode == 2

InitParts ==
  /\ EpisodeCreated
  /\ part = {}
  /\ chapter = {}
  /\ lastOp = [op |-> "createEpisode", error |-> "none", returned |-> <<Seed.episode>>,
               removed |-> <<0, 0, 0, 0, 0>>]

NextParts ==
  \/ Cardinality(part) < MaxPerEpisode /\ \E X \in CrudInputs.parts : Tracker_createPart(X)
  \/ Cardinality(chapter) < MaxPerEpisode
        /\ \E X \in CrudInputs.chapters : Tracker_createChapter(X)
  \/ \E p \in {1, 2} : Tracker_deletePart("t1", "a1", 1, p)
  \/ \E n \in {1, 2} : Tracker_deleteChapter("t1", "a1", 1, n)

SpecParts == InitParts /\ [][NextParts]_vars

\* chapters of the episode with its part 1: payloads vary the part
\* reference and the optional fields
MaxChapters == 2

FieldInputs ==
  [chapters |-> {[timelineName |-> "t1", arcName |-> "a1", episodeNumber |-> 1,
                  partNumber |-> p, number |-> 1, title |-> "T", date |-> 1,
                  outfit |-> o[1], kink |-> o[2]] :
                   p \in {NoPart, 1},
                   o \in {<<Undefined, Undefined>>, <<"", "k">>, <<"o", "">>}},
   chapterPatches |-> {[title |-> "Updated"], [outfit |-> ""], [kink |-> "k"]}]

InitChapters ==
  /\ EpisodeCreated
  /\ part = IF variant = "composite" THEN {Seed.part}
            ELSE {[id |-> 1, episode_id |-> 1, number |-> 1, description |-> "d"]}
  /\ chapter = {}
  /\ lastOp = [op |-> "createPart", error |-> "none", returned |-> <<Seed.part>>,
               removed |-> <<0, 0, 0, 0, 0>>]

NextChapters ==
  \/ Cardinality(chapter) < MaxChapters
        /\ \E X \in FieldInputs.chapters : Tracker_createChapter(X)
  \/ \E data \in FieldInputs.chapterPatches : Tracker_updateChapter("t1", "a1", 1, 1, data)
  \/ Tracker_deleteChapter("t1", "a1", 1, 1)

SpecChapters == InitChapters /\ [][NextChapters]_vars

\* ------------------------------------- migrations/003_convert_date_format
\* A date is kept as text.  Here a text is the sequence of its characters.
\* width of a date in the form YYYY-MM-DD
DateWidth == 10

\* substr(X, 1, n)
substr(s, n) == SubSeq(s, 1, IF Len(s) < n THEN Len(s) ELSE n)

\* X LIKE '%T%': LIKE of SQLite takes no account of the case of ASCII
\* letters, and the connection does not set case_sensitive_like
LikeT(s) == \E i \in 1..Len(s) : s[i] \in {"T", "t"}

\* UPDATE chapter SET date = substr(date, 1, 10) WHERE date LIKE '%T%'
ConvertDates(rows) ==
  {IF LikeT(r.date) THEN [r EXCEPT !.date = substr(@, DateWidth)] ELSE r : r \in rows}

\* up(db) of unit 003
Migration003_up ==
  /\ chapter' = ConvertDates(chapter)
  /\ lastOp' = [Idle EXCEPT !.op = "003.up"]
  /\ UNCHANGED <<runnerVars, variant, pending, timeline, arc, episode, part>>

\* down(db) of unit 003: an empty body
Migration003_down ==
  /\ lastOp' = [Idle EXCEPT !.op = "003.down"]
  /\ UNCHANGED <<runnerVars, variant, pending, timeline, arc, episode, part, chapter>>

\* chapters of one episode with dates as callers and earlier releases wrote
\* them: toISOString(), YYYY-MM-DD, and free text
MaxDated == 3

DateTexts ==
  {<<"2", "0", "2", "4", "-", "0", "1", "-", "0", "1", "T", "0", "0", ":", "0", "0", ":", "0", "0", ".", "0", "0", "0", "Z">>,
   <<"2", "0", "2", "4", "-", "0", "1", "-", "0", "1">>,
   <<"O", "c", "t", "o", "b", "e", "r", " ", "1", ",", " ", "2", "0", "2", "4">>,
   <<"T", "u", "e", " ", "1", " ", "O", "c", "t">>,
   <<"2", "0", "2", "4", "-", "0", "1", "-", "0", "1", " ", "1", "2", ":", "0", "0">>}

Init003 ==
  /\ EpisodeCreated
  /\ variant = "composite"
  /\ part = {Seed.part}
  /\ \E ns \in SUBSET (1..MaxDated) : \E d \in [ns -> DateTexts] :
        chapter = {[timelineName |-> "t1", arcName |-> "a1", episodeNumber |-> 1,
                    partNumber |-> 1, number |-> n, title |-> "T", date |-> d[n],
                    outfit |-> Null, kink |-> Null] : n \in ns}
  /\ lastOp = Idle

Next003 == Migration003_up \/ Migration003_down

Spec003 == Init003 /\ [][Next003]_vars

\* ------------------------------------------- getChapters with a part number
\* .where(partNumber, =, p): on the column of the chapter row under composite
\* keys, on part.number of the left-joined part under surrogate keys (a
\* chapter without part joins no part and never matches)
PartIs(i, p) ==
  IF variant = "composite" THEN i.rec.partNumber = p
  ELSE \E c \in chapter, q \in part : c.id = i.id /\ q.id = c.part_id /\ q.number = p

\* getChapters(t, a, e, p) with partNumber !== undefined
getChaptersOfPart(t, a, e, p) ==
  OrderBy({i \in Where(Chapters, [timelineName |-> t, arcName |-> a, episodeNumber |-> e]) :
             PartIs(i, p)})

\* two timelines with an arc of the same name, an episode and a part of the
\* same numbers, and a second arc under the first
Library ==
  [timelines |-> {[name |-> t, description |-> "d"] : t \in {"t1", "t2"}},
   arcs |-> {[timelineName |-> "t1", name |-> "a1", number |-> 1, description |-> "d"],
             [timelineName |-> "t1", name |-> "a2", number |-> 2, description |-> "d"],
             [timelineName |-> "t2", name |-> "a1", number |-> 1, description |-> "d"]},
   episodes |-> {[timelineName |-> "t1", arcName |-> "a1", number |-> 1, description |-> "d"],
                 [timelineName |-> "t1", arcName |-> "a2", number |-> 1, description |-> "d"],
                 [timelineName |-> "t2", arcName |-> "a1", number |-> 1, description |-> "d"]},
   parts |-> {[timelineName |-> "t1", arcName |-> "a1", episodeNumber |-> 1, number |-> 1,
               description |-> "d"],
              [timelineName |-> "t1", arcName |-> "a1", episodeNumber |-> 1, number |-> 2,
               description |-> "d"],
              [timelineName |-> "t1", arcName |-> "a2", episodeNumber |-> 1, number |-> 1,
               description |-> "d"],
              [timelineName |-> "t2", arcName |-> "a1", episodeNumber |-> 1, number |-> 1,
               description |-> "d"]},
   chapter |-> [timelineName |-> "t2", arcName |-> "a1", episodeNumber |-> 1,
                partNumber |-> 1, number |-> 1, title |-> "T", date |-> 1,
                outfit |-> Undefined, kink |-> Undefined],
   chapters |-> {[timelineName |-> "t1", arcName |-> "a1", episodeNumber |-> 1,
                  partNumber |-> p, number |-> n, title |-> "T", date |-> 1,
                  outfit |-> Undefined, kink |-> Undefined] :
                   p \in {NoPart, 1, 2}, n \in {1, 2}}
                \cup {[timelineName |-> "t1", arcName |-> "a2", episodeNumber |-> 1,
                       partNumber |-> 1, number |-> 1, title |-> "T", date |-> 1,
                       outfit |-> Undefined, kink |-> Undefined]}]

\* chapters under t1 held at a time
MaxLibrary == 2

\* either class after the creates of the library's timelines, arcs,
\* episodes and parts, in this order, and of the chapter under t2
InitPaths ==
  /\ Ready
  /\ IF variant = "composite"
     THEN /\ timeline = Library.timelines
          /\ arc = Library.arcs
          /\ episode = Library.episodes
          /\ part = Library.parts
          /\ chapter = {ChapterColumns(Library.chapter)}
     ELSE /\ timeline = {[id |-> 1, name |-> "t1", description |-> "d"],
                         [id |-> 2, name |-> "t2", description |-> "d"]}
          /\ arc = {[id |-> 1, timeline_id |-> 1, name |-> "a1", number |-> 1,
                     description |-> "d"],
                    [id |-> 2, timeline_id |-> 1, name |-> "a2", number |-> 2,
                     description |-> "d"],
                    [id |-> 3, timeline_id |-> 2, name |-> "a1", number |-> 1,
                     description |-> "d"]}
          /\ episode = {[id |-> 1, arc_id |-> 1, number |-> 1, description |-> "d"],
                        [id |-> 2, arc_id |-> 2, number |-> 1, description |-> "d"],
                        [id |-> 3, arc_id |-> 3, number |-> 1, description |-> "d"]}
          /\ part = {[id |-> 1, episode_id |-> 1, number |-> 1, description |-> "d"],
                     [id |-> 2, episode_id |-> 1, number |-> 2, description |-> "d"],
                     [id |-> 3, episode_id |-> 2, number |-> 1, description |-> "d"],
                     [id |-> 4, episode_id |-> 3, number |-> 1, description |-> "d"]}
          /\ chapter = {[id |-> 1, episode_id |-> 3, part_id |-> 4, number |-> 1,
                         title |-> "T", date |-> toISOString(1), outfit |-> Null,
                         kink |-> Null]}
  /\ lastOp = Idle

\* calls addressed to paths under t1
NextPaths ==
  \/ Cardinality(chapter) <= MaxLibrary
        /\ \E X \in {Y \in Library.chapters : Y.partNumber = 1 /\ Y.number = 1} :
              Tracker_createChapter(X)
  \/ Tracker_deleteTimeline("t1")
  \/ \E a \in {"a1", "a2"} : Tracker_deleteArc("t1", a)
  \/ Tracker_deleteEpisode("t1", "a1", 1)
  \/ \E p \in {1, 2} : Tracker_deletePart("t1", "a1", 1, p)
  \/ \E n \in {1, 2} : Tracker_deleteChapter("t1", "a1", 1, n)
  \/ Tracker_updateArc("t1", "a1", [description |-> "e"])
  \/ Tracker_updateEpisode("t1", "a1", 1, [description |-> "e"])

SpecPaths == InitPaths /\ [][NextPaths]_vars

\* chapters of every part come and go under the episodes of t1
NextListing ==
  \/ Cardinality(chapter) <= MaxLibrary
        /\ \E X \in Library.chapters : Tracker_createChapter(X)
  \/ \E n \in {1, 2} : Tracker_deleteChapter("t1", "a1", 1, n)
  \/ \E p \in {1, 2} : Tracker_deletePart("t1", "a1", 1, p)

SpecListing == InitPaths /\ [][NextListing]_vars

\* ------------------------------------------------------ down(db) by hand
Down_unrecord(u) ==
  /\ pc = "idle"
  /\ \E c \in schema : c[1] = u
  /\ schema' = {c \in schema : c[1] # u}
  /\ ledger' = ledger \ {u}
  /\ timeline' = IF u = 1 THEN {} ELSE timeline
  /\ arc' = IF u = 1 THEN {} ELSE arc
  /\ episode' = IF u = 1 THEN {} ELSE episode
  /\ part' = IF u = 1 THEN {} ELSE part
  /\ chapter' = IF u = 1 THEN {} ELSE chapter
  /\ UNCHANGED <<ledgerTable, trx, pc, executed, migrations, idx, stmt, err, broken,
                 impl, log, startLedger, prev, commits, lastOp, variant, pending>>

\* An operator imports a unit and calls its down on the connection between
\* two runs: the unit's changes leave the schema (the down of 001 drops the
\* five tables, rows included).  It touches no row of _migrations.
Down(u) ==
  /\ pc = "idle"
  /\ \E c \in schema : c[1] = u
  /\ schema' = {c \in schema : c[1] # u}
  /\ timeline' = IF u = 1 THEN {} ELSE timeline
  /\ arc' = IF u = 1 THEN {} ELSE arc
  /\ episode' = IF u = 1 THEN {} ELSE episode
  /\ part' = IF u = 1 THEN {} ELSE part
  /\ chapter' = IF u = 1 THEN {} ELSE chapter
  /\ UNCHANGED <<ledgerTable, ledger, trx, pc, executed, migrations, idx, stmt, err, broken,
                 impl, log, startLedger, prev, commits, lastOp, variant, pending>>

NextRevert == Next \/ \E u \in Units : Down(u)

SpecRevert == Init /\ [][NextRevert]_vars

\* ------------------------------------------- a second invocation of migrate
\* Another invocation of migrate on the same store runs the same loop.  The
\* store serialises transactions, so all this invocation sees of the other
\* is its COMMIT, between two transactions of ours: the least unrecorded unit
\* enters schema and ledger together.  An attempt of the other on a recorded
\* unit is refused by the primary key and changes nothing.  Before this
\* invocation has read the ledger a commit of the other is a commit of an
\* earlier run; the interleaving starts once executed is read.
OtherCommit ==
  /\ pc \in {"load", "loop"}
  /\ ~trx.active
  /\ \E u \in Units \ (ledger \cup broken) :
        /\ \A v \in Units : v < u => v \in ledger
        /\ schema' = schema \cup {<<u, k, impl>> : k \in Stmts}
        /\ ledger' = ledger \cup {u}
        /\ commits' = [commits EXCEPT ![u] = Bump(@)]
  /\ UNCHANGED <<crudVars, ledgerTable, trx, pc, executed, migrations, idx, stmt, err,
                 broken, impl, log, startLedger, prev>>

NextRace == Next \/ OtherCommit

SpecRace == Init /\ [][NextRace]_vars

\* ------------------------------------ create: the select and the insert
\* createArc and createEpisode of the surrogate-key class await two
\* statements: the SELECT of the parent's id and the INSERT with that id.
\* Calls of other callers on the same Tracker run between the two.
ParentLookup(op, X) ==
  /\ CanCall
  /\ variant = "surrogate"
  /\ pending = NoCall
  /\ UNCHANGED <<runnerVars, variant>>
  /\ LET parents == IF op = "createArc" THEN Where(Timelines, [name |-> X.timelineName])
                    ELSE Where(Arcs, [timelineName |-> X.timelineName, name |-> X.arcName])
     IN IF SchemaRejects(X) THEN Fail(op, "ZodError") /\ UNCHANGED pending
        ELSE IF parents = {} THEN Fail(op, "not found") /\ UNCHANGED pending
        ELSE \E id \in Ids(parents) :
             /\ pending' = [op |-> op, data |-> X, parent |-> id]
             /\ UNCHANGED <<timeline, arc, episode, part, chapter, lastOp>>

InsertChild_unchecked ==
  /\ CanCall
  /\ pending # NoCall
  /\ pending' = NoCall
  /\ UNCHANGED <<runnerVars, variant>>
  /\ LET X == pending.data
     IN /\ arc' = IF pending.op # "createArc" THEN arc
                  ELSE arc \cup {[id |-> FreshId(arc), timeline_id |-> pending.parent,
                                  name |-> X.name, number |-> X.number,
                                  description |-> OrNull(X.description)]}
        /\ episode' = IF pending.op # "createEpisode" THEN episode
                      ELSE episode \cup {[id |-> FreshId(episode), arc_id |-> pending.parent,
                                          number |-> X.number,
                                          description |-> OrNull(X.description)]}
        /\ UNCHANGED <<timeline, part, chapter>>
        /\ Outcome(pending.op, "none", <<X>>)

\* the INSERT: timeline_id and arc_id are declared references(...), and the
\* store refuses a row whose parent id is in no row of the parent table
InsertChild ==
  /\ CanCall
  /\ pending # NoCall
  /\ pending' = NoCall
  /\ UNCHANGED <<runnerVars, variant>>
  /\ LET X == pending.data
         A == IF pending.op # "createArc" THEN arc
              ELSE arc \cup {[id |-> FreshId(arc), timeline_id |-> pending.parent,
                              name |-> X.name, number |-> X.number,
                              description |-> OrNull(X.description)]}
         E == IF pending.op # "createEpisode" THEN episode
              ELSE episode \cup {[id |-> FreshId(episode), arc_id |-> pending.parent,
                                  number |-> X.number,
                                  description |-> OrNull(X.description)]}
     IN IF Dangling(timeline, A, E, part, chapter) # {}
        THEN Fail(pending.op, "constraint failed")
        ELSE /\ arc' = A
             /\ episode' = E
             /\ UNCHANGED <<timeline, part, chapter>>
             /\ Outcome(pending.op, "none", <<X>>)

\* arcs and episodes held at a time
MaxHeld == 6

InitLookup == InitPaths /\ variant = "surrogate"

\* one caller creates an arc or an episode, another deletes timelines and arcs
NextLookup ==
  \/ /\ Cardinality(arc) + Cardinality(episode) < MaxHeld
     /\ \E t \in {"t1", "t2"} :
           \/ ParentLookup("createArc", [timelineName |-> t, name |-> "a3", number |-> 3,
                                         description |-> "d"])
           \/ ParentLookup("createEpisode", [timelineName |-> t, arcName |-> "a1",
                                             number |-> 2, description |-> "d"])
  \/ InsertChild
  \/ \E t \in {"t1", "t2"} : Tracker_deleteTimeline(t)
  \/ \E t \in {"t1", "t2"}, a \in {"a1", "a3"} : Tracker_deleteArc(t, a)

SpecLookup == InitLookup /\ [][NextLookup]_vars

\* ----------------------------------------- the columns of table chapter
\* Units 1, 2 and 3 of the runner are 001_initial, 002_rename_excerpt_to_summary
\* and 003_convert_date_format.

\* createTable('chapter') of 001_initial
ChapterTable001 ==
  {"timelineName", "arcName", "episodeNumber", "partNumber", "number", "pov", "title",
   "date", "excerpt", "location", "outfit", "kink", "words", "characters",
   "charactersNoSpaces", "paragraphs", "sentences", "readingTimeMinutes", "createdAt",
   "updatedAt"}

\* alterTable('chapter').renameColumn(from, to)
renameColumn(cols, from, to) ==
  IF from \in cols THEN (cols \ {from}) \cup {to} ELSE cols

\* the columns of chapter in a committed schema; 003 changes rows only
ChapterTableColumns(sch) ==
  IF ~\E v \in 1..MaxImpl : <<1, NStmts, v>> \in sch THEN {}
  ELSE IF \E v \in 1..MaxImpl : <<2, NStmts, v>> \in sch
  THEN renameColumn(ChapterTable001, "excerpt", "summary")
  ELSE ChapterTable001

\* createChapter: insertInto('chapter').values({...validated, date, outfit,
\* kink}) names every field of the validated Chapter as a column
ChapterWrites ==
  {"timelineName", "arcName", "episodeNumber", "partNumber", "number", "pov", "title",
   "date", "excerpt", "location", "outfit", "kink", "words", "characters",
   "charactersNoSpaces", "paragraphs", "sentences", "readingTimeMinutes"}

\* getChapter and getChapters: selectAll(), then the fields read off the row
ChapterReads ==
  {"timelineName", "arcName", "episodeNumber", "partNumber", "number", "pov", "title",
   "date", "excerpt", "location", "outfit", "kink", "words", "characters",
   "charactersNoSpaces", "paragraphs", "sentences", "readingTimeMinutes"}

\* ---------------------------------------------------------------- history
Events(kind) == {log[i][2] : i \in {j \in 1..Len(log) : log[j][1] = kind}}
Begun == Events("begin")
CommittedInRun == Events("commit")
RolledBack == Events("rollback")

ChangesPresent(sch, u) == \A k \in Stmts : \E v \in 1..MaxImpl : <<u, k, v>> \in sch
NoChange(sch, u) == \A k \in Stmts : \A v \in 1..MaxImpl : <<u, k, v>> \notin sch
FullyMigrated == ledger = Units /\ \A u \in Units : ChangesPresent(schema, u)
Failing == err.orig[1]

\* ------------------------------------------------------------------ claims
\* C1 - runner idempotence: in a run that follows a successful run, no
\* unit's up is invoked, the run does not reject, and the ledger stays what
\* the first run left.
Thm_C1_Idempotent ==
  (prev.result = "ok" /\ pc # "idle") =>
     /\ Begun = {}
     /\ pc # "failed"
     /\ err = NoErr
     /\ ledger = prev.ledger

Wit_C1_SecondRunDone ==
  prev.result = "ok" /\ pc = "done" /\ ledger = Units /\ Begun = {}

\* C2 - per-unit atomicity: once a unit has failed (in up, after some of its
\* statements, or in the ledger insert) the committed store has none of its
\* changes and no ledger row for it, and the units committed earlier in the
\* run are recorded with their changes.
Thm_C2_Atomic ==
  pc = "failed" =>
     /\ Failing \notin ledger
     /\ NoChange(schema, Failing)
     /\ trx = NoTrx
     /\ \A w \in CommittedInRun : w \in ledger /\ ChangesPresent(schema, w)

Wit_C2_SecondStatementThrew ==
  pc = "failed" /\ err.orig[2] = 2 /\ stmt = 1 /\ CommittedInRun # {}

\* C3 - at-most-once: over all runs a unit is committed at most once, and a
\* unit that was in the ledger when a run started has no up invoked in it,
\* whatever release of its up is deployed.
Thm_C3_AtMostOnce ==
  \A u \in Units :
     /\ commits[u] <= 1
     /\ u \in Begun => u \notin startLedger

Wit_C3_SkippedAfterRewrite ==
  /\ pc = "done" /\ impl > 1 /\ startLedger # {} /\ Begun # {}
  /\ \E u \in startLedger : \E k \in Stmts : <<u, k, 1>> \in schema

\* C4 - application order: within a run the ups start in ascending order of
\* name, a unit's up starts only when every smaller unit is committed, and
\* a transaction is over before the next begins.
Thm_C4_Order ==
  /\ \A i, j \in 1..Len(log) :
        (i < j /\ log[i][1] = "begin" /\ log[j][1] = "begin") =>
           /\ log[i][2] < log[j][2]
           /\ \E k \in (i+1)..(j-1) : log[k] = <<"commit", log[i][2]>>
  /\ \A v \in Begun : \A w \in Units : w < v => w \in ledger
  /\ trx.active => (Len(log) > 0 /\ log[Len(log)] = <<"begin", Cur>>)

Wit_C4_ThreeInOrder ==
  pc = "done" /\ Len(log) = 2 * MaxUnits /\ Begun = Units

\* C5 - fail-fast: a failed unit ends the run: its rollback is the last event
\* of the run, no later unit's up is invoked, migrate rejects with an error
\* (never resolves), and the units committed before stay applied and recorded.
Thm_C5_FailFast ==
  \A i \in 1..Len(log) :
     log[i][1] = "rollback" =>
        /\ i = Len(log)
        /\ pc = "failed" \/ (pc = "idle" /\ prev.result = "error")
        /\ err # NoErr
        /\ \A v \in Units : v > log[i][2] => v \notin Begun
        /\ \A w \in CommittedInRun : w \in ledger /\ ChangesPresent(schema, w)

Wit_C5_MiddleUnitFailed ==
  pc = "failed" /\ Failing = 2 /\ CommittedInRun = {1} /\ 3 \notin ledger

\* C6 - ledger and schema change commit together: in every committed state,
\* also after a process death inside a run, a unit is in the ledger iff
\* its changes are in the store, and while a unit's transaction is open its
\* row is not in the committed ledger.
Thm_C6_LedgerWithSchema ==
  /\ \A u \in Units :
        /\ u \in ledger => ChangesPresent(schema, u)
        /\ u \notin ledger => NoChange(schema, u)
  /\ trx.active => Cur \notin ledger

Wit_C6_CrashInsideTransaction ==
  /\ pc = "idle" /\ prev.result = "crash" /\ stmt >= 1
  /\ Len(log) > 0 /\ log[Len(log)][1] = "begin"
  /\ ledger # {} /\ ledger # Units

\* C7 - no partial readiness: migrate resolves only when every discovered
\* unit is in the ledger with its changes committed.
Thm_C7_NoPartialReadiness ==
  pc = "done" => (FullyMigrated /\ trx = NoTrx)

Wit_C7_ResolvedAfterApplying ==
  pc = "done" /\ Begun # {} /\ startLedger # {} /\ prev.result = "error"

\* C8 - retry on the next run: the unit that failed in the previous run has
\* its up invoked in the next run; when no pending unit fails any more that
\* run resolves with the store fully migrated; within one run no unit's up
\* is invoked twice.
Thm_C8_RetryNextRun ==
  /\ \A i, j \in 1..Len(log) :
        (log[i][1] = "begin" /\ log[j][1] = "begin" /\ log[i][2] = log[j][2]) => i = j
  /\ (prev.result = "error" /\ pc \in {"done", "failed"}) =>
        /\ prev.failed \in Begun
        /\ broken \cap (Units \ startLedger) = {} => (pc = "done" /\ FullyMigrated)

Wit_C8_RetriedAndCompleted ==
  /\ prev.result = "error" /\ prev.failed = 2 /\ pc = "done"
  /\ Begun = {2, 3} /\ FullyMigrated

\* C9 (as stated) - the error migrate rejects with carries the name of the
\* failing unit as an annotation.
Orig_C9_Annotated ==
  pc = "failed" => err.annotation = Cur

\* C9 (amended) - the error migrate rejects with is the error the unit threw,
\* unchanged and without any annotation, delivered after the rollback.
Thm_C9_OriginalErrorUnchanged ==
  pc = "failed" =>
     /\ err = [orig |-> <<Cur, stmt + 1>>, annotation |-> NoUnit]
     /\ trx = NoTrx
     /\ log[Len(log)] = <<"rollback", Cur>>

Wit_C9_UpThrew ==
  pc = "failed" /\ err.orig = <<2, 1>> /\ RolledBack = {2}

\* rows of the child tables that carry timeline name t
RowsUnder(t) ==
  {r \in arc \cup episode \cup part \cup chapter : r.timelineName = t}

\* rows whose parent row does not exist
Orphans ==
  {r \in arc : ArcTimelineRef(r) \notin TimelineKeys(timeline)}
    \cup {r \in episode : EpisodeArcRef(r) \notin ArcKeys(arc)}
    \cup {r \in part : PartEpisodeRef(r) \notin EpisodeKeys(episode)}
    \cup {r \in chapter : \/ ChapterEpisodeRef(r) \notin EpisodeKeys(episode)
                          \/ ChapterPartRef(r) \notin PartKeys(part)}

\* C10 - timeline cascade: after deleteTimeline(t) no arc, episode, part or
\* chapter row under t is left, whatever was below t, and no table holds a
\* row without its parent.
Thm_C10_TimelineCascade ==
  [][/\ Orphans' = {}
     /\ \A t \in TimelineNames :
           deleteTimeline(t) =>
              /\ RowsUnder(t)' = {}
              /\ TimelineRow(t) \notin timeline']_vars

Wit_C10_DeepHierarchyDeleted ==
  /\ lastOp.op = "deleteTimeline"
  /\ lastOp.removed[1] = 1 /\ lastOp.removed[2] >= 1 /\ lastOp.removed[3] >= 1
  /\ lastOp.removed[4] >= 1 /\ lastOp.removed[5] >= 1
  /\ timeline # {}

\* C11 - arc cascade: after deleteArc(t, a) getEpisodes(t, a) returns an
\* empty list, and getChapter returns undefined for every chapter that was
\* under that arc, whatever episodes, parts and chapters the arc had.
Thm_C11_ArcCascade ==
  [][\A a \in {"a1", "a2"} :
        Tracker_deleteArc("t1", a) =>
           /\ getEpisodes("t1", a)' = {<<>>}
           /\ \A c \in Chapters :
                 (c.rec.timelineName = "t1" /\ c.rec.arcName = a) =>
                    getChapter("t1", a, c.rec.episodeNumber, c.rec.number)' = {<<>>}]_vars

Wit_C11_ArcWithChaptersDeleted ==
  /\ lastOp.op = "deleteArc"
  /\ lastOp.removed[2] = 1 /\ lastOp.removed[3] >= 1
  /\ lastOp.removed[4] >= 1 /\ lastOp.removed[5] >= 1
  /\ arc # {}

\* the chapter row c holds a reference to the part row p
RefersTo(c, p) ==
  IF variant = "composite" THEN ChapterPartRef(c) = PartKey(p) ELSE c.part_id = p.id

\* C12 - part cascade: deletePart removes at most one part row, and of the
\* chapter rows exactly those that reference it; every other chapter row,
\* such as one of the same episode that references another part, stays as
\* it was.
Thm_C12_PartCascade ==
  [][\A p \in {1, 2} :
        Tracker_deletePart("t1", "a1", 1, p) =>
           /\ part' \subseteq part
           /\ Cardinality(part \ part') <= 1
           /\ chapter' = {c \in chapter : \A gone \in part \ part' : ~RefersTo(c, gone)}]_vars

Wit_C12_SiblingChapterStays ==
  /\ lastOp.op = "deletePart"
  /\ lastOp.removed[4] = 1 /\ lastOp.removed[5] >= 1
  /\ \E c \in chapter, p \in part : RefersTo(c, p)

\* C13 - referential integrity: in every state every arc row's timeline,
\* every episode row's arc, every part row's episode and every chapter
\* row's episode and part exist, also after updates whose payload names
\* identity or parent fields.
Thm_C13_NoDangling ==
  Dangling(timeline, arc, episode, part, chapter) = {}

Wit_C13_ArcMovedToOtherTimeline ==
  /\ lastOp.op = "updateArc"
  /\ \E r \in arc : r.timelineName = "t2"
  /\ \E r \in timeline : r.name = "t1"

\* the parent path of a record to create finds no row
ArcParentMissing(X) == Where(Timelines, [name |-> X.timelineName]) = {}
EpisodeParentMissing(X) ==
  Where(Arcs, [timelineName |-> X.timelineName, name |-> X.arcName]) = {}
PartParentMissing(X) ==
  Where(Episodes, [timelineName |-> X.timelineName, arcName |-> X.arcName,
                   number |-> X.episodeNumber]) = {}
ChapterParentMissing(X) ==
  \/ PartParentMissing(X)
  \/ /\ X.partNumber # NoPart
     /\ Where(Parts, [timelineName |-> X.timelineName, arcName |-> X.arcName,
                      episodeNumber |-> X.episodeNumber, number |-> X.partNumber]) = {}

\* the five tables
Tables == <<timeline, arc, episode, part, chapter>>

\* a create under a missing parent fails: the surrogate-key class throws
\* not-found, the composite-key class lets the store refuse the INSERT
FailedOnParent ==
  /\ lastOp'.error = IF variant = "composite" THEN "constraint failed" ELSE "not found"
  /\ lastOp'.returned = <<>>
  /\ Tables' = Tables

\* C14 - create under a missing parent: createArc, createEpisode,
\* createPart and createChapter called with a valid record whose parent
\* path finds no row throw (not-found or the store's constraint error) and
\* leave all five tables as they were.
Thm_C14_MissingParent ==
  [][/\ \A X \in ChainInputs.arcs :
           (~SchemaRejects(X) /\ ArcParentMissing(X) /\ Tracker_createArc(X))
              => FailedOnParent
     /\ \A X \in ChainInputs.episodes :
           (~SchemaRejects(X) /\ EpisodeParentMissing(X) /\ Tracker_createEpisode(X))
              => FailedOnParent
     /\ \A X \in ChainInputs.parts :
           (~SchemaRejects(X) /\ PartParentMissing(X) /\ Tracker_createPart(X))
              => FailedOnParent
     /\ \A X \in ChainInputs.chapters :
           (~SchemaRejects(X) /\ ChapterParentMissing(X) /\ Tracker_createChapter(X))
              => FailedOnParent]_vars

Wit_C14_PartNotFound ==
  /\ variant = "surrogate"
  /\ lastOp.op = "createChapter"
  /\ lastOp.error = "not found"
  /\ episode # {}
  /\ part = {}
  /\ chapter = {}

\* C15 - chapter without a part: with timeline, arc and episode created and
\* nothing below the episode, createChapter with no part reference
\* succeeds, and getChapters then returns exactly one chapter, with the
\* title given.
Orig_C15_ChapterWithoutPart ==
  [][\A X \in CrudInputs.chapters :
        (X.partNumber = NoPart /\ part = {} /\ chapter = {} /\ Tracker_createChapter(X)) =>
           /\ lastOp'.error = "none"
           /\ \A list \in getChapters("t1", "a1", 1)' :
                 Len(list) = 1 /\ list[1].title = X.title]_vars

\* the record an update returns: it is a stored row, it has the payload's
\* value in every field the payload names and the old value in the others
Framed(old, data, stored) ==
  /\ lastOp'.error = "none"
  /\ lastOp'.returned # <<>>
  /\ \E i \in stored : lastOp'.returned = <<i.rec>>
  /\ \A f \in DOMAIN old :
        lastOp'.returned[1][f] = IF f \in DOMAIN data THEN data[f] ELSE old[f]

\* C16 - partial update frame: an update call on an existing entity returns
\* the stored row, in which every field of the payload has the value given
\* and every other field the value it had.
Orig_C16_UpdateFrame ==
  [][/\ \A data \in CrudInputs.timelinePatches :
           \A i \in Where(Timelines, [name |-> "t1"]) :
              Tracker_updateTimeline("t1", data) => Framed(i.rec, data, Timelines')
     /\ \A a \in {"a1", "a2"}, data \in CrudInputs.arcPatches :
           \A i \in Where(Arcs, [timelineName |-> "t1", name |-> a]) :
              Tracker_updateArc("t1", a, data) => Framed(i.rec, data, Arcs')
     /\ \A data \in CrudInputs.episodePatches :
           \A i \in Where(Episodes, [timelineName |-> "t1", arcName |-> "a1",
                                     number |-> 1]) :
              Tracker_updateEpisode("t1", "a1", 1, data) => Framed(i.rec, data, Episodes')
     /\ \A p \in {1, 2}, data \in CrudInputs.partPatches :
           \A i \in Where(Parts, [timelineName |-> "t1", arcName |-> "a1",
                                  episodeNumber |-> 1, number |-> p]) :
              Tracker_updatePart("t1", "a1", 1, p, data) => Framed(i.rec, data, Parts')
     /\ \A n \in {1, 2}, data \in CrudInputs.chapterPatches :
           \A i \in Where(Chapters, [timelineName |-> "t1", arcName |-> "a1",
                                     episodeNumber |-> 1, number |-> n]) :
              Tracker_updateChapter("t1", "a1", 1, n, data)
                 => Framed(i.rec, data, Chapters')]_vars

\* create(X) went through and the get method of X's identity returns X
RoundTrip(X, got) == lastOp'.error = "none" /\ got = {<<X>>}

\* C17 - create/get round trip: for a valid record whose identity is free
\* and whose parent path exists, the create method succeeds and the get
\* method of its identity then returns a record equal to it in every field.
Orig_C17_RoundTrip ==
  [][/\ \A X \in ChainInputs.timelines :
           (/\ ~SchemaRejects(X) /\ Where(Timelines, [name |-> X.name]) = {}
            /\ Tracker_createTimeline(X))
              => RoundTrip(X, getTimeline(X.name)')
     /\ \A X \in ChainInputs.arcs :
           (/\ ~SchemaRejects(X) /\ ~ArcParentMissing(X)
            /\ Where(Arcs, [timelineName |-> X.timelineName, name |-> X.name]) = {}
            /\ Tracker_createArc(X))
              => RoundTrip(X, getArc(X.timelineName, X.name)')
     /\ \A X \in ChainInputs.episodes :
           (/\ ~SchemaRejects(X) /\ ~EpisodeParentMissing(X)
            /\ Where(Episodes,
                  [timelineName |-> X.timelineName, arcName |-> X.arcName,
                   number |-> X.number]) = {}
            /\ Tracker_createEpisode(X))
              => RoundTrip(X, getEpisode(X.timelineName, X.arcName, X.number)')
     /\ \A X \in ChainInputs.parts :
           (/\ ~SchemaRejects(X) /\ ~PartParentMissing(X)
            /\ Where(Parts,
                  [timelineName |-> X.timelineName, arcName |-> X.arcName,
                   episodeNumber |-> X.episodeNumber, number |-> X.number]) = {}
            /\ Tracker_createPart(X))
              => RoundTrip(X, getPart(X.timelineName, X.arcName, X.episodeNumber, X.number)')
     /\ \A X \in ChainInputs.chapters :
           (/\ ~SchemaRejects(X) /\ ~ChapterParentMissing(X)
            /\ Where(Chapters,
                  [timelineName |-> X.timelineName, arcName |-> X.arcName,
                   episodeNumber |-> X.episodeNumber, number |-> X.number]) = {}
            /\ Tracker_createChapter(X))
              => RoundTrip(X, getChapter(X.timelineName, X.arcName, X.episodeNumber,
                                         X.number)')]_vars

\* C18 - optional chapter fields: a chapter created without outfit or kink
\* reads back with the field undefined, and one created or updated with a
\* value for outfit or kink, the empty string included, reads back with
\* that value.
Orig_C18_OptionalFields ==
  [][/\ \A X \in FieldInputs.chapters :
           (/\ Where(Chapters,
                  [timelineName |-> "t1", arcName |-> "a1",
                   episodeNumber |-> 1, number |-> 1]) = {}
            /\ Tracker_createChapter(X)
            /\ lastOp'.error = "none")
              => \A got \in getChapter("t1", "a1", 1, 1)' :
                    /\ got # <<>>
                    /\ got[1].outfit = X.outfit
                    /\ got[1].kink = X.kink
     /\ \A data \in FieldInputs.chapterPatches :
           (/\ Cardinality(Where(Chapters,
                              [timelineName |-> "t1", arcName |-> "a1",
                               episodeNumber |-> 1, number |-> 1])) = 1
            /\ Tracker_updateChapter("t1", "a1", 1, 1, data)
            /\ lastOp'.error = "none")
              => \A f \in DOMAIN data \cap {"outfit", "kink"} :
                    lastOp'.returned[1][f] = data[f]]_vars

\* the list holds the records of the items, each once, in ascending number
Listed(list, items) ==
  /\ Len(list) = Cardinality(items)
  /\ {list[k] : k \in 1..Len(list)} = {i.rec : i \in items}
  /\ \A x, y \in 1..Len(list) : x < y => list[x].number <= list[y].number

\* C19 - listing order: getArcs, getEpisodes, getParts and getChapters
\* return the rows of the addressed parent and no others, each once, in
\* ascending order of number; rows that share a number are all returned.
Thm_C19_ListingOrder ==
  /\ \A list \in getArcs("t1") : Listed(list, Where(Arcs, [timelineName |-> "t1"]))
  /\ \A a \in {"a1", "a2"} :
        \A list \in getEpisodes("t1", a) :
           Listed(list, Where(Episodes, [timelineName |-> "t1", arcName |-> a]))
  /\ \A list \in getParts("t1", "a1", 1) :
        Listed(list, Where(Parts, [timelineName |-> "t1", arcName |-> "a1",
                                   episodeNumber |-> 1]))
  /\ \A list \in getChapters("t1", "a1", 1) :
        Listed(list, Where(Chapters, [timelineName |-> "t1", arcName |-> "a1",
                                      episodeNumber |-> 1]))

Wit_C19_SortedAgainstNames ==
  \E list \in getArcs("t1") :
     /\ Len(list) = 2
     /\ list[1].name = "a2" /\ list[1].number = 1
     /\ list[2].name = "a1" /\ list[2].number = 2

\* a call whose payload fails validation throws the ZodError and changes no
\* table
Invalid == lastOp'.error = "ZodError" /\ Tables' = Tables

\* C20 - validation precedes mutation: a create or update whose payload
\* fails schema validation throws the validation error, and all tables are
\* as before the call.
Thm_C20_ValidationFirst ==
  [][/\ \A X \in ChainInputs.timelines :
           (SchemaRejects(X) /\ Tracker_createTimeline(X)) => Invalid
     /\ \A X \in ChainInputs.arcs : (SchemaRejects(X) /\ Tracker_createArc(X)) => Invalid
     /\ \A X \in ChainInputs.episodes :
           (SchemaRejects(X) /\ Tracker_createEpisode(X)) => Invalid
     /\ \A X \in ChainInputs.parts : (SchemaRejects(X) /\ Tracker_createPart(X)) => Invalid
     /\ \A X \in ChainInputs.chapters :
           (SchemaRejects(X) /\ Tracker_createChapter(X)) => Invalid
     /\ \A data \in ChainInputs.timelinePatches :
           (SchemaRejects(data) /\ Tracker_updateTimeline("t1", data)) => Invalid
     /\ \A data \in ChainInputs.arcPatches :
           (SchemaRejects(data) /\ Tracker_updateArc("t1", "a1", data)) => Invalid
     /\ \A data \in ChainInputs.episodePatches :
           (SchemaRejects(data) /\ Tracker_updateEpisode("t1", "a1", 1, data)) => Invalid
     /\ \A data \in ChainInputs.partPatches :
           (SchemaRejects(data) /\ Tracker_updatePart("t1", "a1", 1, 1, data)) => Invalid
     /\ \A data \in ChainInputs.chapterPatches :
           (SchemaRejects(data) /\ Tracker_updateChapter("t1", "a1", 1, 1, data))
              => Invalid]_vars

Wit_C20_UpdateRejected ==
  /\ lastOp.op = "updateChapter"
  /\ lastOp.error = "ZodError"
  /\ chapter # {}

\* C21 - all-or-nothing create/update: a create or update call that ends
\* in an error (validation, not found or constraint) leaves the stored rows
\* exactly as they were before the call, also when the payload of an update
\* names the entity's own identity fields.
Orig_C21_AllOrNothing ==
  [][(/\ lastOp'.op \in {"createTimeline", "createArc", "createEpisode", "createPart",
                         "createChapter", "updateTimeline", "updateArc",
                         "updateEpisode", "updatePart", "updateChapter"}
      /\ lastOp'.error # "none")
        => Tables' = Tables]_vars

\* the store refused the call: its error reached the caller, no row changed
RefusedByStore == lastOp'.error = "constraint failed" /\ Tables' = Tables

\* C22 - duplicate identity: a create call for a record whose identity is
\* already stored is rejected by the store, the caller gets the error, and
\* the stored row keeps all its field values.
Orig_C22_DuplicateIdentity ==
  [][/\ \A X \in ChainInputs.timelines :
           (/\ ~SchemaRejects(X) /\ getTimeline(X.name) # {<<>>}
            /\ Tracker_createTimeline(X)) => RefusedByStore
     /\ \A X \in ChainInputs.arcs :
           (/\ ~SchemaRejects(X) /\ getArc(X.timelineName, X.name) # {<<>>}
            /\ Tracker_createArc(X)) => RefusedByStore
     /\ \A X \in ChainInputs.episodes :
           (/\ ~SchemaRejects(X)
            /\ getEpisode(X.timelineName, X.arcName, X.number) # {<<>>}
            /\ Tracker_createEpisode(X)) => RefusedByStore
     /\ \A X \in ChainInputs.parts :
           (/\ ~SchemaRejects(X)
            /\ getPart(X.timelineName, X.arcName, X.episodeNumber, X.number) # {<<>>}
            /\ Tracker_createPart(X)) => RefusedByStore
     /\ \A X \in ChainInputs.chapters :
           (/\ ~SchemaRejects(X)
            /\ getChapter(X.timelineName, X.arcName, X.episodeNumber, X.number) # {<<>>}
            /\ Tracker_createChapter(X)) => RefusedByStore]_vars

\* the text has the letter T
ContainsT(s) == \E i \in 1..Len(s) : s[i] = "T"

\* the first n characters of the text
FirstChars(s, n) == [i \in 1..(IF Len(s) < n THEN Len(s) ELSE n) |-> s[i]]

ExactlyInOrder(list, items) ==
  /\ Len(list) = Cardinality(items)
  /\ {list[k] : k \in 1..Len(list)} = {i.rec : i \in items}
  /\ \A x, y \in 1..Len(list) : x < y => list[x].number <= list[y].number

\* C24 - chapter listing filter: getChapters(t, a, e) returns all chapters
\* of episode e whatever their part, getChapters(t, a, e, p) exactly the
\* chapters of episode e whose part number is p, both by ascending chapter
\* number.
Orig_C24_ChapterFilter ==
  \A t \in {"t1", "t2"}, a \in {"a1", "a2"} :
     LET ofEpisode == Where(Chapters, [timelineName |-> t, arcName |-> a,
                                      episodeNumber |-> 1])
     IN /\ \A list \in getChapters(t, a, 1) : ExactlyInOrder(list, ofEpisode)
        /\ \A p \in {NoPart, 1, 2} :
              \A list \in getChaptersOfPart(t, a, 1, p) :
                 ExactlyInOrder(list, {i \in ofEpisode : i.rec.partNumber = p})


\* the unit is recorded and none of its changes is in the schema
Reverted(u) == u \in ledger /\ ~\E c \in schema : c[1] = u

\* C25 - revert is outside the ledger protocol: no step of the runner takes
\* a committed change out of the schema; a down called by hand leaves
\* _migrations as it was; and once a recorded unit is reverted it stays
\* recorded and reverted through every later run.
Thm_C25_RevertOutsideLedger ==
  [][/\ (~\E u \in Units : Down(u)) => schema \subseteq schema'
     /\ \A u \in Units :
           /\ Down(u) => ledger' = ledger /\ ledgerTable' = ledgerTable /\ Reverted(u)'
           /\ Reverted(u) => Reverted(u)']_vars

\* a later run has passed the reverted first unit and is past the last unit
Wit_C25_SkippedAfterRevert ==
  /\ Reverted(1)
  /\ pc = "done"
  /\ idx > Len(migrations)
  /\ Len(migrations) = MaxUnits

\* C26 - prefix invariant: from the empty ledger, through any number of
\* runs in which any unit may fail, the names recorded in _migrations are
\* always the first names of the ascending unit list, and no step takes a
\* name out.
Thm_C26_LedgerPrefix ==
  [][/\ \A u \in ledger' : \A v \in Units : v < u => v \in ledger'
     /\ ledger \subseteq ledger']_vars

\* the first run failed at 002, the next committed 002 and failed at 003
Wit_C26_TwoFailedRuns ==
  /\ pc = "failed"
  /\ prev = [result |-> "error", failed |-> 2, ledger |-> {1}]
  /\ ledger = {1, 2}
  /\ Failing = 3

\* C27 - interleaved invocations: when another invocation commits a unit
\* after this one has read the ledger, the unit is committed once only: this
\* invocation's transaction on it changes neither schema nor ledger, never
\* reaches its COMMIT, and ends in the rollback with which migrate rejects.
Thm_C27_CommittedOnce ==
  [][/\ \A u \in Units : commits'[u] <= 1
     /\ (trx.active /\ Cur \in ledger) =>
           /\ schema' = schema /\ ledger' = ledger /\ commits' = commits
           /\ pc' # "commit"
           /\ pc' # pc => (pc' \in {"insert", "failed", "idle"} /\ (pc' = "failed" => ~trx'.active))]_vars

\* this invocation read the ledger without 002, the other committed 002,
\* this one began 002 and its ledger insert was refused
Wit_C27_SecondOnUnitFailed ==
  /\ pc = "failed"
  /\ 2 \notin executed /\ 2 \in ledger /\ 2 \notin broken
  /\ commits[2] = 1
  /\ err = [orig |-> <<2, NStmts + 1>>, annotation |-> NoUnit]
  /\ log[Len(log)] = <<"rollback", 2>>

\* the parent the create in flight selected is no longer in its table
ParentGone ==
  /\ pending # NoCall
  /\ pending.parent \notin Ids(IF pending.op = "createArc" THEN timeline ELSE arc)

\* C28 - check-then-insert race: when the parent is deleted between the
\* select and the insert of a surrogate-key create, the insert is refused,
\* the store's error reaches the caller and no row changes; no row that
\* refers to a missing parent exists after any step.
Thm_C28_CheckThenInsert ==
  [][/\ (ParentGone /\ InsertChild) =>
           (lastOp'.error = "constraint failed" /\ lastOp'.op = pending.op /\ Tables' = Tables)
     /\ Dangling(timeline', arc', episode', part', chapter') = {}]_vars

\* createEpisode selected arc a1 of t1, the arc was deleted, the insert failed
Wit_C28_InsertRefused ==
  /\ lastOp.op = "createEpisode" /\ lastOp.error = "constraint failed"
  /\ pending = NoCall
  /\ getArc("t1", "a1") = {<<>>}
  /\ getTimeline("t1") # {<<>>}

\* the rows under timeline t, and those under arc a of timeline t
ViewUnder(t) ==
  <<Where(Timelines, [name |-> t]), Where(Arcs, [timelineName |-> t]),
    Where(Episodes, [timelineName |-> t]), Where(Parts, [timelineName |-> t]),
    Where(Chapters, [timelineName |-> t])>>

ViewUnderArc(t, a) ==
  <<Where(Arcs, [timelineName |-> t, name |-> a]),
    Where(Episodes, [timelineName |-> t, arcName |-> a]),
    Where(Parts, [timelineName |-> t, arcName |-> a]),
    Where(Chapters, [timelineName |-> t, arcName |-> a])>>

\* C29 - path isolation: an update or delete addressed to a path under t1
\* leaves every row under t2 as it was, also though t2 holds an arc of the
\* same name with an episode, a part and a chapter of the same numbers; a
\* call addressed to (t1, a1) leaves the rows under (t1, a2) as they were.
Thm_C29_PathIsolation ==
  [][/\ (\/ Tracker_deleteTimeline("t1")
         \/ \E a \in {"a1", "a2"} : Tracker_deleteArc("t1", a)
         \/ Tracker_deleteEpisode("t1", "a1", 1)
         \/ \E p \in {1, 2} : Tracker_deletePart("t1", "a1", 1, p)
         \/ \E n \in {1, 2} : Tracker_deleteChapter("t1", "a1", 1, n)
         \/ Tracker_updateArc("t1", "a1", [description |-> "e"])
         \/ Tracker_updateEpisode("t1", "a1", 1, [description |-> "e"]))
           => ViewUnder("t2")' = ViewUnder("t2")
     /\ (\/ Tracker_deleteArc("t1", "a1")
         \/ Tracker_deleteEpisode("t1", "a1", 1)
         \/ \E p \in {1, 2} : Tracker_deletePart("t1", "a1", 1, p)
         \/ \E n \in {1, 2} : Tracker_deleteChapter("t1", "a1", 1, n)
         \/ Tracker_updateArc("t1", "a1", [description |-> "e"])
         \/ Tracker_updateEpisode("t1", "a1", 1, [description |-> "e"]))
           => ViewUnderArc("t1", "a2")' = ViewUnderArc("t1", "a2")]_vars

\* arc a1 of t1 went with its chapter; arc a1 of t2 still has its chapter 1
Wit_C29_SameNamesElsewhere ==
  /\ lastOp.op = "deleteArc" /\ lastOp.removed[2] = 1 /\ lastOp.removed[5] = 1
  /\ getArc("t1", "a1") = {<<>>}
  /\ getArc("t1", "a2") # {<<>>}
  /\ getChapter("t2", "a1", 1, 1) # {<<>>}

\* C30 - schema/CRUD agreement: once migrate has resolved with 001, 002 and
\* 003 applied, every column createChapter writes and every column
\* getChapter and getChapters read, excerpt among them, is a column of table
\* chapter.
Orig_C30_SchemaAgreement ==
  (pc = "done" /\ {1, 2, 3} \subseteq ledger) =>
     /\ "excerpt" \in ChapterWrites \cap ChapterReads
     /\ ChapterWrites \subseteq ChapterTableColumns(schema)
     /\ ChapterReads \subseteq ChapterTableColumns(schema)

====
